---- MODULE Spec2Model ----
(***************************************************************************)
(* A model of github.com/rogpeppe/cuediscrim: the value-set algebra         *)
(* (valueset.go), the two arm-index set backends (wordset.go, mapset.go),   *)
(* the compatibility merger (merge.go), the discriminator (discrim.go) and  *)
(* the decision tree (node.go).                                             *)
(*                                                                          *)
(* Strings whose characters the code inspects (atoms, field names, paths)   *)
(* are sequences of one-character strings.  A cue.Kind bitmask is the set   *)
(* of its bits, each bit named by its kind.                                 *)
(***************************************************************************)
EXTENDS Integers, Sequences, FiniteSets, TLC

----------------------------------------------------------------------------
(* cue.Kind                                                                 *)

NullKind == {"null"}
BoolKind == {"bool"}
IntKind == {"int"}
FloatKind == {"float"}
StringKind == {"string"}
BytesKind == {"bytes"}
ListKind == {"list"}
StructKind == {"struct"}
NumberKind == IntKind \cup FloatKind
BottomKind == {}
TopKind == NullKind \cup BoolKind \cup NumberKind \cup StringKind
             \cup BytesKind \cup ListKind \cup StructKind

\* valueset.go: var allKinds; bottom is the zero bitmask.
allKinds ==
  << BottomKind, NullKind, BoolKind, IntKind, FloatKind,
     StringKind, BytesKind, ListKind, StructKind >>

isAtomKind(k) ==
  k \in { NullKind, BoolKind, IntKind, FloatKind, StringKind, BytesKind, NumberKind }

----------------------------------------------------------------------------
(* Atom: the canonical rendering of a concrete value.                       *)

AtomTrue == << "t", "r", "u", "e" >>
AtomFalse == << "f", "a", "l", "s", "e" >>
AtomNull == << "n", "u", "l", "l" >>
AtomA == << "\"", "a", "\"" >>
AtomB == << "\"", "b", "\"" >>
AtomOne == << "1" >>
AtomFrac == << "2", ".", "5" >>
AtomNeg == << "-", "1" >>
NoAtom == << >>

Digits == { "0", "1", "2", "3", "4", "5", "6", "7", "8", "9" }

atomIsValid(a) == a # << >>

\* Atom.kind panics ("unknown kind for atom") on any other first character.
kindPanics(a) ==
  /\ atomIsValid(a)
  /\ a[1] \notin ({ "\"", "'", ".", "n", "f", "t" } \cup Digits)

atomKind(a) ==
  IF ~atomIsValid(a) THEN BottomKind
  ELSE IF a[1] = "\"" THEN StringKind
  ELSE IF a[1] = "'" THEN BytesKind
  ELSE IF a[1] \in (Digits \cup { "." }) THEN NumberKind
  ELSE IF a[1] = "n" THEN NullKind
  ELSE IF a[1] \in { "f", "t" } THEN BoolKind
  ELSE BottomKind

----------------------------------------------------------------------------
(* valueSet: (types, consts).  PanicVS stands for a call that panicked in   *)
(* Atom.kind and returned nothing.                                          *)

PanicVS == [ types |-> { "PANIC" }, consts |-> {} ]

EmptyVS == [ types |-> {}, consts |-> {} ]

anyKindPanics(cs) == \E c \in cs : kindPanics(c)

normalize(s) ==
  IF s = PanicVS \/ anyKindPanics(s.consts) THEN PanicVS
  ELSE [ types |-> s.types,
         consts |-> { c \in s.consts : (s.types \cap atomKind(c)) = {} } ]

\* The variant that forgets to copy the second map in.
mapSetUnionKeepLeft(m0, m1) ==
  IF Cardinality(m0) = 0 THEN m1 ELSE m0

\* mapSet.union: the set of keys of the result.
mapSetUnion(m0, m1) ==
  IF Cardinality(m0) = 0 THEN m1
  ELSE IF Cardinality(m1) = 0 THEN m0
  ELSE m0 \cup m1

vsUnion(s0, s1) ==
  IF s0 = PanicVS \/ s1 = PanicVS THEN PanicVS
  ELSE normalize([ types |-> s0.types \cup s1.types,
                   consts |-> mapSetUnion(s0.consts, s1.consts) ])

vsIntersect(s0, s1) ==
  IF s0 = PanicVS \/ s1 = PanicVS THEN PanicVS
  ELSE IF anyKindPanics(s0.consts \cup s1.consts) THEN PanicVS
  ELSE normalize(
         [ types |-> s0.types \cap s1.types,
           consts |->
             { c \in s1.consts : (s0.types \cap atomKind(c)) # {} }
             \cup { c \in s0.consts : (s1.types \cap atomKind(c)) # {} }
             \cup { c \in s0.consts : c \in s1.consts } ])

holdsAtom(s0, v) ==
  IF (s0.types \cap atomKind(v)) # {} THEN TRUE ELSE v \in s0.consts

vsWithout(s0, s1) ==
  IF s0 = PanicVS \/ s1 = PanicVS THEN PanicVS
  ELSE IF anyKindPanics(s0.consts) THEN PanicVS
  ELSE normalize(
         [ types |-> s0.types \ s1.types,
           consts |-> { c \in s0.consts : ~holdsAtom(s1, c) } ])

\* valueSet.kinds: all the kinds, those of the constants included.
vsKinds(s) == s.types \cup UNION { atomKind(c) : c \in s.consts }

vsTypes(s) == s.types

isEmpty(s) == s.types = {} /\ Cardinality(s.consts) = 0

\* The normal form the type's comment promises.
IsNormalForm(s) ==
  \A c \in s.consts : kindPanics(c) \/ (s.types \cap atomKind(c)) = {}

----------------------------------------------------------------------------
(* cue.Value, as far as the package looks at it.  A value is absent (the    *)
(* zero cue.Value), a concrete atom, a basic type of some kinds, a          *)
(* disjunction, or a struct: a sequence of fields, each with a name, a      *)
(* label type and a value.  The disjunction splitter and the merger also    *)
(* see lists (elements and, for an open list, the type of the rest) and     *)
(* calls of builtins: fn(n, list).  Values are held evaluated.              *)

NoValue == [ tag |-> "none" ]
VAtom(a, k) == [ tag |-> "atom", atom |-> a, kind |-> k ]
VType(k) == [ tag |-> "type", kind |-> k ]
VOr(as) == [ tag |-> "or", args |-> as ]
VStruct(fs) == [ tag |-> "struct", fields |-> fs ]
VList(es) == [ tag |-> "list", elems |-> es, rest |-> NoValue ]
VOpenList(es, r) == [ tag |-> "list", elems |-> es, rest |-> r ]
VCall(f, n, l) == [ tag |-> "call", fn |-> f, n |-> n, list |-> l ]
Field(n, l, v) == [ name |-> n, label |-> l, value |-> v ]

Exists(v) == v.tag # "none"

RECURSIVE IncompleteKind(_)
IncompleteKind(v) ==
  CASE v.tag = "none" -> BottomKind
    [] v.tag = "atom" -> v.kind
    [] v.tag = "type" -> v.kind
    [] v.tag = "struct" -> StructKind
    [] v.tag = "list" -> ListKind
    [] v.tag = "or" ->
         UNION { IncompleteKind(v.args[i]) : i \in DOMAIN v.args }

\* Value.Kind: the kind of a concrete value, bottom for anything else.
ConcreteKind(v) ==
  CASE v.tag = "atom" -> v.kind
    [] v.tag = "struct" -> StructKind
    [] v.tag = "list" -> ListKind
    [] OTHER -> BottomKind

\* Value.Validate(cue.Concrete(true)) == nil, for a value of an atom kind.
IsConcrete(v) == v.tag = "atom"

\* fmt.Sprint of a concrete atom.
Sprint(v) == v.atom

\* Value.Expr: the operator.
ExprOp(v) ==
  IF v.tag = "or" THEN "or" ELSE IF v.tag = "call" THEN "call" ELSE "noop"

\* Value.Int64: defined for a concrete integer only.
Int64Ok(v) == v.tag = "atom" /\ v.kind = IntKind

DigitSeq == << "0", "1", "2", "3", "4", "5", "6", "7", "8", "9" >>

RECURSIVE DecValue(_)
DecValue(a) ==
  IF a = << >> THEN 0
  ELSE 10 * DecValue(SubSeq(a, 1, Len(a) - 1))
         + (CHOOSE d \in 0 .. 9 : DigitSeq[d + 1] = a[Len(a)])

Int64(v) ==
  IF v.atom[1] = "-" THEN 0 - DecValue(Tail(v.atom)) ELSE DecValue(v.atom)

\* Value.Len().Int64 and Value.List: both succeed on a closed list, and at
\* least one of them fails on anything else.
IsList(v) == v.tag = "list" /\ v.rest.tag = "none"

atomForValue(v) ==
  IF ~isAtomKind(IncompleteKind(v)) \/ ~IsConcrete(v) THEN NoAtom
  ELSE Sprint(v)

RECURSIVE vsUnionAll(_, _, _)
RECURSIVE valueSetForValue(_)

\* The loop of valueSetForValue over args[1:].
vsUnionAll(s, args, i) ==
  IF i > Len(args) THEN s
  ELSE vsUnionAll(vsUnion(s, valueSetForValue(args[i])), args, i + 1)

valueSetForValue(v) ==
  IF IncompleteKind(v) = NullKind
  THEN [ types |-> NullKind, consts |-> {} ]
  ELSE IF atomIsValid(atomForValue(v))
  THEN [ types |-> {}, consts |-> { atomForValue(v) } ]
  ELSE IF ExprOp(v) # "or"
  THEN [ types |-> IncompleteKind(v), consts |-> {} ]
  ELSE vsUnionAll(valueSetForValue(v.args[1]), v.args, 2)

----------------------------------------------------------------------------
(* wordSet: a uint64 bitmap, here the set of its one bits.                  *)

WordBits == 64

allOnes == 0 .. (WordBits - 1)

\* checkWord panics on a value no word can hold.
checkWordPanics(x) == x < 0 \/ x >= WordBits

\* 1 << x on a uint64: the bit is shifted out from WordBits on.
shl1(x) == IF x < WordBits THEN { x } ELSE {}

\* (1 << n) - 1 on a uint64: 0 - 1 wraps to all ones.
lowMask(n) == IF shl1(n) = {} THEN allOnes ELSE 0 .. (n - 1)

wordSetN(n) == lowMask(n)

wordMake == {}

wordOf(xs) == UNION { shl1(x) : x \in xs }

wordHas(s, x) == (s \cap shl1(x)) # {}

wordLen(s) == Cardinality(s)

wordUnion(s0, s1) == s0 \cup s1

wordIntersect(s0, s1) == s0 \cap s1

wordAdd(s, x) == s \cup shl1(x)

wordDelete(s, x) == s \ shl1(x)

wordEqual(s1, s2) == s1 = s2

wordClone(s) == s

trailingZeros(s) == CHOOSE n \in s : \A m \in s : n <= m

RECURSIVE wordValues(_)
\* wordSet.Values: the elements in the order they are yielded.
wordValues(s) ==
  IF s = {} THEN << >>
  ELSE LET n == trailingZeros(s)
       IN << n >> \o wordValues(s \ lowMask(n + 1))

SeqRange(q) == { q[i] : i \in DOMAIN q }

\* The element of a one-element set.  Only({ e : x \in { v } }) is e with
\* the local variable x holding v, which is evaluated once.
Only(S) == CHOOSE r \in S : TRUE

----------------------------------------------------------------------------
(* mapSet: a Go map, a reference to a table of keys.  Reference 0 is the    *)
(* nil map.  An operation yields either a reference it was given            *)
(* (ref) or a newly made table (keys).                                      *)

NilRef == 0

Shared(r) == [ fresh |-> FALSE, ref |-> r, keys |-> {} ]
Made(ks) == [ fresh |-> TRUE, ref |-> NilRef, keys |-> ks ]

\* The keys of the map a reference points at, under heap h.
mapKeys(h, r) == IF r = NilRef THEN {} ELSE h[r]

mapMake == Made({})

\* mapSetOf: the map is only made for the first element.
mapOf(xs) == IF xs = {} THEN Shared(NilRef) ELSE Made(xs)

mapHas(h, r, x) == x \in mapKeys(h, r)

mapLen(h, r) == Cardinality(mapKeys(h, r))

mapEqual(h, r1, r2) == mapKeys(h, r1) = mapKeys(h, r2)

mapValues(h, r) == mapKeys(h, r)

mapClone(h, r) == IF r = NilRef THEN Shared(NilRef) ELSE Made(mapKeys(h, r))

mapUnion(h, r0, r1) ==
  IF mapLen(h, r0) = 0 THEN Shared(r1)
  ELSE IF mapLen(h, r1) = 0 THEN Shared(r0)
  ELSE Made(mapKeys(h, r0) \cup mapKeys(h, r1))

mapIntersect(h, r0, r1) ==
  IF mapLen(h, r0) = 0 THEN Shared(r0)
  ELSE IF mapLen(h, r1) = 0 THEN Shared(r1)
  ELSE IF mapKeys(h, r0) \cap mapKeys(h, r1) = {} THEN Shared(NilRef)
  ELSE Made(mapKeys(h, r0) \cap mapKeys(h, r1))

----------------------------------------------------------------------------
(* Slices are sequences; arm indices count from 0 as in the code.           *)

At(arms, i) == arms[i + 1]

Indices(arms) == 0 .. (Len(arms) - 1)

----------------------------------------------------------------------------
(* Paths and the field walker (fields.go).                                  *)

RootPath == << "." >>

pathConcat(p1, p2) ==
  IF p1 = << >> \/ p1 = RootPath THEN p2 ELSE p1 \o << "." >> \o p2

\* labelType bits.
requiredLabel == { "required" }
optionalLabel == { "optional" }
regularLabel == { "regular" }

\* structFields: the fields of v whose label type is among labelTypes;
\* Value.Fields fails on anything but a struct.
structFields(v, labelTypes) ==
  IF v.tag # "struct" THEN << >>
  ELSE SelectSeq(v.fields, LAMBDA f : f.label \in labelTypes)

RECURSIVE fieldNamesFrom(_, _, _, _, _)
\* The names of the fields of the selected values, in the order the walker
\* first meets them (orderedNames).
fieldNamesFrom(values, selected, labelTypes, i, names) ==
  IF i >= Len(values) THEN names
  ELSE IF i \notin selected
  THEN fieldNamesFrom(values, selected, labelTypes, i + 1, names)
  ELSE LET fs == structFields(At(values, i), labelTypes)
           new == SelectSeq([ j \in 1 .. Len(fs) |-> fs[j].name ],
                            LAMBDA n : n \notin SeqRange(names))
       IN fieldNamesFrom(values, selected, labelTypes, i + 1, names \o new)

\* The value of field name in v, absent when v has no such field.
fieldValue(v, name, labelTypes) ==
  LET fs == SelectSeq(structFields(v, labelTypes), LAMBDA f : f.name = name)
  IN IF fs = << >> THEN NoValue ELSE fs[1].value

\* ordered[oi]: one value for each arm, absent for an arm that is not
\* selected or has no such field.
fieldEntry(values, selected, labelTypes, name) ==
  [ j \in 1 .. Len(values) |->
      IF (j - 1) \in selected
      THEN fieldValue(values[j], name, labelTypes)
      ELSE NoValue ]

hasNonStruct(values) ==
  \E j \in DOMAIN values :
    Exists(values[j]) /\ IncompleteKind(values[j]) # StructKind

pathValues(p, vs) == [ path |-> p, values |-> vs ]

\* The fields of the selected values of x, one entry for each name, in the
\* order of orderedNames.
fieldEntries(x, selected, labelTypes) ==
  Only({ [ j \in 1 .. Len(names) |->
            pathValues(pathConcat(x.path, names[j]),
                       fieldEntry(x.values, selected, labelTypes, names[j])) ] :
          names \in { fieldNamesFrom(x.values, selected, labelTypes, 0, << >>) } })

RECURSIVE allFieldsLoopInOrder(_, _, _)
\* The variant with a single pass: every field in the order it is met.
allFieldsLoopInOrder(q, selected, labelTypes) ==
  IF q = << >> THEN << >>
  ELSE Only({ all \o allFieldsLoopInOrder(
                       Tail(q) \o SelectSeq(all, LAMBDA e : ~hasNonStruct(e.values)),
                       selected, labelTypes) :
               all \in { fieldEntries(Head(q), selected, labelTypes) } })

RECURSIVE allFieldsLoop(_, _, _)
\* One round of the walker's loop for the head of the queue q, then the rest:
\* the entries with a non-struct value are yielded first, then the others,
\* which are also queued.
allFieldsLoop(q, selected, labelTypes) ==
  IF q = << >> THEN << >>
  ELSE Only({ Only({ SelectSeq(all, LAMBDA e : hasNonStruct(e.values)) \o rest
                        \o allFieldsLoop(Tail(q) \o rest, selected, labelTypes) :
                      rest \in { SelectSeq(all, LAMBDA e : ~hasNonStruct(e.values)) } }) :
               all \in { fieldEntries(Head(q), selected, labelTypes) } })

\* allFields: the (path, values) pairs in the order they are yielded.
allFields(values, selected, labelTypes) ==
  allFieldsLoop(<< pathValues(RootPath, values) >>, selected, labelTypes)

RECURSIVE splitFrom(_, _, _, _)
\* strings.Split(s, sep) for a one-character sep.
splitFrom(s, sep, i, cur) ==
  IF i > Len(s) THEN << cur >>
  ELSE IF s[i] = sep THEN << cur >> \o splitFrom(s, sep, i + 1, << >>)
  ELSE splitFrom(s, sep, i + 1, Append(cur, s[i]))

split(s, sep) == splitFrom(s, sep, 1, << >>)

RECURSIVE LookupSelectors(_, _)
\* Value.LookupPath: descend by string selectors.
LookupSelectors(v, sels) ==
  IF sels = << >> THEN v
  ELSE IF v.tag # "struct" THEN NoValue
  ELSE LET fs == SelectSeq(v.fields, LAMBDA f : f.name = Head(sels))
       IN IF fs = << >> THEN NoValue
          ELSE LookupSelectors(fs[1].value, Tail(sels))

lookupPath(v, path) ==
  IF path = RootPath \/ path = << >> THEN v
  ELSE LookupSelectors(v, split(path, "."))

----------------------------------------------------------------------------
(* Set[T] values as the nodes hold them (set.go).  vals is what Values      *)
(* yields, has is what Has and Len consult; they differ only for a          *)
(* revSetImpl.                                                              *)

plainSet(xs) == [ vals |-> xs, has |-> xs ]

setLen(s) == Cardinality(s.has)

setHas(s, x) == x \in s.has

NoRev == [ isNil |-> TRUE, revMap |-> << >> ]

RevOf(m) == [ isNil |-> FALSE, revMap |-> m ]

\* The closure mergeCompatible returns.
revApply(rev, i) ==
  IF i < 0 \/ i >= Len(rev.revMap) THEN {} ELSE rev.revMap[i + 1]

revSet(xs, rev) ==
  IF rev.isNil THEN plainSet(xs)
  ELSE [ vals |-> UNION { revApply(rev, x) : x \in xs }, has |-> xs ]

union(s1, s2) ==
  IF setLen(s1) = 0 THEN s2
  ELSE IF setLen(s2) = 0 THEN s1
  ELSE plainSet(s1.vals \cup s2.vals)

intersect(s0, s1) ==
  IF setLen(s0) = 0 THEN s1
  ELSE IF setLen(s1) = 0 THEN s1
  ELSE plainSet({ x \in s0.vals : setHas(s1, x) })

----------------------------------------------------------------------------
(* Decision nodes (node.go).                                                *)

LeafNode(arms) == [ tag |-> "leaf", Arms |-> arms ]

KindSwitchNode(path, branches) ==
  [ tag |-> "kind", Path |-> path, Branches |-> branches ]

ValueSwitchNode(path, branches, default) ==
  [ tag |-> "value", Path |-> path, Branches |-> branches, Default |-> default ]

FieldAbsenceNode(branches) == [ tag |-> "absence", Branches |-> branches ]

ErrorNode == [ tag |-> "error" ]

\* No node: the call did not return.
PanicNode == [ tag |-> "panic" ]

NilNode == [ tag |-> "nil" ]

\* A node holding a branch whose construction panicked is never built.
anyPanic(branches) ==
  \E k \in DOMAIN branches : branches[k].tag = "panic"

----------------------------------------------------------------------------
(* The discriminator (discrim.go in package cuediscrim).                    *)

MapValues(m) == { m[k] : k \in DOMAIN m }

EmptyMap == [ k \in {} |-> {} ]

hasConsts(arms) == \E j \in DOMAIN arms : arms[j].consts # {}

\* armKind applied to a value set: valueSet.kinds, or the types alone.
applyArmKind(armKind, s) == IF armKind = "kinds" THEN vsKinds(s) ELSE vsTypes(s)

kindDiscrim(arms, selected, armKind) ==
  LET group(k) == { i \in Indices(arms) :
                      i \in selected
                        /\ (applyArmKind(armKind, At(arms, i)) \cap k) # {} }
  IN [ k \in { k \in SeqRange(allKinds) : group(k) # {} } |-> group(k) ]

valueDiscrim(arms, selected) ==
  LET stated(c) == { i \in Indices(arms) :
                       i \in selected /\ c \in At(arms, i).consts }
      allowed(c) == { i \in Indices(arms) :
                        (At(arms, i).types \cap atomKind(c)) # {} }
      cs == UNION { At(arms, i).consts : i \in Indices(arms) \cap selected }
  IN [ c \in cs |-> stated(c) \cup allowed(c) ]

\* The loop of fullyDiscriminated that counts every element of a group,
\* selected or not.
RECURSIVE fullyDiscriminatedCountAll(_, _, _)
fullyDiscriminatedCountAll(it, selected, found) ==
  IF it = << >> THEN Cardinality(found) = Cardinality(selected)
  ELSE IF Cardinality(Head(it)) > 1 THEN FALSE
  ELSE fullyDiscriminatedCountAll(Tail(it), selected,
                                  found \cup (Head(it) \cap selected))

\* The loop of fullyDiscriminated over the groups the iterator yields, from
\* the set found so far: a group with more than one selected element ends
\* it.
RECURSIVE fullyDiscriminatedSeq(_, _, _)
fullyDiscriminatedSeq(it, selected, found) ==
  IF it = << >> THEN Cardinality(found) = Cardinality(selected)
  ELSE IF Cardinality(Head(it) \cap selected) > 1 THEN FALSE
  ELSE fullyDiscriminatedSeq(Tail(it), selected,
                             found \cup (Head(it) \cap selected))

\* The values of a map in one of the orders a range over it may take.
RECURSIVE SomeOrder(_)
SomeOrder(S) ==
  IF S = {} THEN << >>
  ELSE Only({ << x >> \o SomeOrder(S \ { x }) : x \in { CHOOSE y \in S : TRUE } })

\* The first half of fullyDiscriminated alone: no group holds two selected
\* elements.
fullyDiscriminatedAtMostOne(groups, selected) ==
  \A x \in groups : Cardinality(x \cap selected) <= 1

fullyDiscriminated(groups, selected) ==
  fullyDiscriminatedSeq(SomeOrder(groups), selected, {})

existenceDiscriminator(arms, selected) ==
  { i \in Indices(arms) : i \in selected /\ ~Exists(At(arms, i)) }

Without(m, k) == [ x \in DOMAIN m \ { k } |-> m[x] ]

\* What discriminators returns, or panic when it does not return.
Discrims(byValue, byKind, full) ==
  [ panic |-> FALSE, byValue |-> byValue, byKind |-> byKind, full |-> full ]

DiscrimsPanic ==
  [ panic |-> TRUE, byValue |-> EmptyMap, byKind |-> EmptyMap, full |-> FALSE ]

\* The value sets of the selected arms; the others stay zero.
armValueSets(arms0, selected) ==
  [ j \in 1 .. Len(arms0) |->
      IF (j - 1) \in selected THEN valueSetForValue(arms0[j]) ELSE EmptyVS ]

\* The second half of discriminators with no key deleted from either map.
valueDiscriminatorsKeepAll(arms, selected, needDiscrim) ==
  Only({ Discrims(byValue, byKind,
                  fullyDiscriminated(MapValues(byValue) \cup MapValues(byKind),
                                     needDiscrim)) :
          byValue \in { valueDiscrim(arms, selected) },
          byKind \in { kindDiscrim(arms, selected, "types") } })

\* The second half of discriminators: by value, and by type only.
valueDiscriminators(arms, selected, needDiscrim) ==
  Only({ Only({ Only({ Discrims(byValue, byKind,
                         fullyDiscriminated(
                           MapValues(byValue) \cup MapValues(byKind),
                           needDiscrim)) :
                       byKind \in { IF AtomTrue \in DOMAIN byValue
                                       /\ AtomFalse \in DOMAIN byValue
                                    THEN Without(byKind1, BoolKind)
                                    ELSE byKind1 } }) :
                byValue \in { IF NullKind \in DOMAIN byKind1
                              THEN Without(byValue0, AtomNull)
                              ELSE byValue0 } }) :
          byValue0 \in { valueDiscrim(arms, selected) },
          byKind1 \in { kindDiscrim(arms, selected, "types") } })

discriminators(arms0, selected, needDiscrim) ==
  Only({ IF \E j \in DOMAIN arms :
               arms[j] = PanicVS \/ anyKindPanics(arms[j].consts)
          THEN DiscrimsPanic
          ELSE Only({ Only({ IF ~hasConsts(arms) \/ full
                             THEN Discrims(EmptyMap, byKind, full)
                             ELSE valueDiscriminators(arms, selected, needDiscrim) :
                             full \in { fullyDiscriminated(MapValues(byKind),
                                                           needDiscrim) } }) :
                      byKind \in { kindDiscrim(arms, selected, "kinds") } }) :
          arms \in { armValueSets(arms0, selected) } })

\* d is the discriminator: d.rev is the merger's reverse map, or NoRev.
asExternalSet(d, s) == revSet(s, d.rev)

newLeaf(d, s) == LeafNode(asExternalSet(d, s))

Put(m, k, v) == [ x \in DOMAIN m \cup { k } |-> IF x = k THEN v ELSE m[x] ]

RECURSIVE absenceLoopKeepBranches(_, _, _, _, _, _)
\* The field-absence loop that returns the branches whatever is left in
\* possible.
absenceLoopKeepBranches(d, fields, j, selected, possible, branches) ==
  IF j > Len(fields) \/ Cardinality(possible) = 0
  THEN FieldAbsenceNode(branches)
  ELSE LET group == existenceDiscriminator(fields[j].values, selected)
       IN IF Cardinality(group) # Cardinality(selected) - 1
          THEN absenceLoopKeepBranches(d, fields, j + 1, selected, possible, branches)
          ELSE IF ~(\E i \in possible : i \notin group)
          THEN absenceLoopKeepBranches(d, fields, j + 1, selected, possible, branches)
          ELSE absenceLoopKeepBranches(d, fields, j + 1, selected,
                                       possible \cap group,
                                       Put(branches, fields[j].path, plainSet(group)))

RECURSIVE absencePossible(_, _, _, _)
\* possible when the field-absence loop over the yielded fields, from the
\* j-th on, ends.
absencePossible(fields, j, selected, possible) ==
  IF j > Len(fields) \/ Cardinality(possible) = 0 THEN possible
  ELSE LET group == existenceDiscriminator(fields[j].values, selected)
       IN IF Cardinality(group) # Cardinality(selected) - 1
          THEN absencePossible(fields, j + 1, selected, possible)
          ELSE absencePossible(fields, j + 1, selected, possible \cap group)

RECURSIVE absenceLoopAnyGroup(_, _, _, _, _, _)
\* The field-absence loop without the test that a group removes a new arm.
absenceLoopAnyGroup(d, fields, j, selected, possible, branches) ==
  IF j > Len(fields) \/ Cardinality(possible) = 0
  THEN IF Cardinality(possible) > 0
       THEN newLeaf(d, selected)
       ELSE FieldAbsenceNode(branches)
  ELSE LET group == existenceDiscriminator(fields[j].values, selected)
       IN IF Cardinality(group) # Cardinality(selected) - 1
          THEN absenceLoopAnyGroup(d, fields, j + 1, selected, possible, branches)
          ELSE absenceLoopAnyGroup(d, fields, j + 1, selected, possible \cap group,
                                   Put(branches, fields[j].path, plainSet(group)))

RECURSIVE absenceLoop(_, _, _, _, _, _)
\* The field-absence loop over the yielded fields, from the j-th on.
absenceLoop(d, fields, j, selected, possible, branches) ==
  IF j > Len(fields) \/ Cardinality(possible) = 0
  THEN IF Cardinality(possible) > 0
       THEN newLeaf(d, selected)
       ELSE FieldAbsenceNode(branches)
  ELSE LET group == existenceDiscriminator(fields[j].values, selected)
       IN IF Cardinality(group) # Cardinality(selected) - 1
          THEN absenceLoop(d, fields, j + 1, selected, possible, branches)
          ELSE IF ~(\E i \in possible : i \notin group)
          THEN absenceLoop(d, fields, j + 1, selected, possible, branches)
          ELSE absenceLoop(d, fields, j + 1, selected, possible \cap group,
                           Put(branches, fields[j].path, plainSet(group)))

RECURSIVE discriminate(_, _, _)
RECURSIVE buildDecisionFromDescriminators(_, _, _, _, _, _)
RECURSIVE singleLoop(_, _, _, _, _)
RECURSIVE singleLoopLastFull(_, _, _, _, _)

\* The single-discriminator loop that goes on to the last field that
\* discriminates fully.
singleLoopLastFull(d, arms, fields, j, selected) ==
  IF j > Len(fields)
  THEN absenceLoop(d, fields, 1, selected, selected, EmptyMap)
  ELSE Only({ IF r.panic THEN PanicNode
               ELSE IF r.full
                       /\ \A k \in (j + 1) .. Len(fields) :
                            ~discriminators(fields[k].values, selected, selected).full
               THEN buildDecisionFromDescriminators(d, fields[j].path,
                      fields[j].values, selected, r.byValue, r.byKind)
               ELSE singleLoopLastFull(d, arms, fields, j + 1, selected) :
               r \in { discriminators(fields[j].values, selected, selected) } })

\* The single-discriminator loop over the yielded fields, from the j-th on,
\* then the field-absence fallback.
singleLoop(d, arms, fields, j, selected) ==
  IF j > Len(fields)
  THEN absenceLoop(d, fields, 1, selected, selected, EmptyMap)
  ELSE Only({ IF r.panic THEN PanicNode
               ELSE IF r.full
               THEN buildDecisionFromDescriminators(d, fields[j].path,
                      fields[j].values, selected, r.byValue, r.byKind)
               ELSE singleLoop(d, arms, fields, j + 1, selected) :
               r \in { discriminators(fields[j].values, selected, selected) } })

\* The arms that need discriminating at the top level: those that are not
\* structs, or all the selected ones when there is none.
needDiscrimOf(arms, selected) ==
  Only({ IF Cardinality(nonStruct) = 0 THEN selected ELSE nonStruct :
          nonStruct \in { { i \in Indices(arms) :
                              (IncompleteKind(At(arms, i)) \cap StructKind) = {} } } })

discriminate(d, arms, selected) ==
  IF Cardinality(selected) <= 1 THEN newLeaf(d, selected)
  ELSE Only({ IF r.panic THEN PanicNode
               ELSE IF r.full
               THEN buildDecisionFromDescriminators(d, RootPath, arms, selected,
                                                    r.byValue, r.byKind)
               ELSE Only({ singleLoop(d, arms, fields, 1, selected) :
                           fields \in { allFields(arms, selected, requiredLabel) } }) :
               r \in { discriminators(arms, selected,
                                      needDiscrimOf(arms, selected)) } })

\* A switch one of whose branches panicked while it was built is not built.
builtOrPanic(n) ==
  IF n.tag = "kind" /\ anyPanic(n.Branches) THEN PanicNode
  ELSE IF n.tag = "value" /\ (anyPanic(n.Branches) \/ n.Default.tag = "panic")
  THEN PanicNode
  ELSE n

\* The kind switch that ends every branch with a leaf of the selected arms.
kindSwitchForLeaves(d, path, values, selected, byKind) ==
  IF DOMAIN byKind = {} THEN ErrorNode
  ELSE KindSwitchNode(path, [ k \in DOMAIN byKind |-> newLeaf(d, selected) ])

\* The kind switch, or ErrorNode when there is no kind to switch on.
kindSwitchFor(d, path, values, selected, byKind) ==
  IF DOMAIN byKind = {} THEN ErrorNode
  ELSE builtOrPanic(KindSwitchNode(path,
         [ k \in DOMAIN byKind |->
             IF k = StructKind /\ Cardinality(byKind[k]) > 1
             THEN discriminate(d, values, byKind[k])
             ELSE IF byKind[k] = selected
             THEN newLeaf(d, selected)
             ELSE discriminate(d, values, byKind[k]) ]))

buildDecisionFromDescriminators(d, path, values, selected, byValue, byKind) ==
  IF DOMAIN byValue = {}
  THEN kindSwitchFor(d, path, values, selected, byKind)
  ELSE builtOrPanic(ValueSwitchNode(path,
         [ val \in DOMAIN byValue |->
             IF byValue[val] = selected
             THEN newLeaf(d, selected)
             ELSE discriminate(d, values, byValue[val]) ],
         kindSwitchFor(d, path, values, selected, byKind)))

\* The calls of discriminate that one call of it makes, itself included:
\* the values and the selected set of each.  The recursion is that of
\* discriminate, singleLoop and buildDecisionFromDescriminators.
RECURSIVE discriminateCalls(_, _)
RECURSIVE buildCalls(_, _, _, _)
RECURSIVE singleLoopCalls(_, _, _)

buildCalls(values, selected, byValue, byKind) ==
  UNION { IF k = StructKind /\ Cardinality(byKind[k]) > 1
          THEN discriminateCalls(values, byKind[k])
          ELSE IF byKind[k] = selected THEN {}
          ELSE discriminateCalls(values, byKind[k]) : k \in DOMAIN byKind }
    \cup UNION { IF byValue[c] = selected THEN {}
                 ELSE discriminateCalls(values, byValue[c]) : c \in DOMAIN byValue }

singleLoopCalls(fields, j, selected) ==
  IF j > Len(fields) THEN {}
  ELSE Only({ IF r.panic THEN {}
               ELSE IF r.full
               THEN buildCalls(fields[j].values, selected, r.byValue, r.byKind)
               ELSE singleLoopCalls(fields, j + 1, selected) :
               r \in { discriminators(fields[j].values, selected, selected) } })

discriminateCalls(values, selected) ==
  { [ values |-> values, selected |-> selected ] }
    \cup IF Cardinality(selected) <= 1 THEN {}
         ELSE Only({ IF r.panic THEN {}
                     ELSE IF r.full
                     THEN buildCalls(values, selected, r.byValue, r.byKind)
                     ELSE singleLoopCalls(allFields(values, selected, requiredLabel),
                                          1, selected) :
                     r \in { discriminators(values, selected,
                                            needDiscrimOf(values, selected)) } })

----------------------------------------------------------------------------
(* Possible, Check and isPerfect (node.go).                                 *)

RECURSIVE foldUnion(_)
\* fold(..., union) over a set of Set values, in any order the map yields
\* them; the zero Set when there is none.
foldUnion(ss) ==
  IF ss = {} THEN plainSet({})
  ELSE LET x == CHOOSE y \in ss : TRUE
       IN IF ss = { x } THEN x ELSE union(foldUnion(ss \ { x }), x)

RECURSIVE Possible(_)
Possible(n) ==
  CASE n.tag = "leaf" -> n.Arms
    [] n.tag = "kind" ->
         foldUnion({ Possible(n.Branches[k]) : k \in DOMAIN n.Branches })
    [] n.tag = "absence" ->
         plainSet(UNION { n.Branches[p].vals : p \in DOMAIN n.Branches })
    [] n.tag = "value" ->
         foldUnion({ Possible(n.Branches[k]) : k \in DOMAIN n.Branches })
    [] n.tag = "error" -> plainSet({})

RECURSIVE absenceCheck(_, _, _, _, _, _)
\* The loop of FieldAbsenceNode.Check over the branches in the order ord.
absenceCheck(n, v, ord, j, first, s) ==
  IF j > Len(ord) THEN IF first THEN Possible(n) ELSE s
  ELSE IF Exists(lookupPath(v, ord[j]))
  THEN absenceCheck(n, v, ord, j + 1, first, s)
  ELSE IF first
  THEN absenceCheck(n, v, ord, j + 1, FALSE, n.Branches[ord[j]])
  ELSE absenceCheck(n, v, ord, j + 1, FALSE, intersect(s, n.Branches[ord[j]]))

RECURSIVE Check(_, _, _)
\* ord lists the paths of the tree's FieldAbsence nodes in the order their
\* maps are ranged over.
Check(n, v, ord) ==
  CASE n.tag = "leaf" -> n.Arms
    [] n.tag = "kind" ->
         LET f == lookupPath(v, n.Path)
         IN IF ConcreteKind(f) \in DOMAIN n.Branches
            THEN Check(n.Branches[ConcreteKind(f)], v, ord)
            ELSE plainSet({})
    [] n.tag = "absence" ->
         absenceCheck(n, v, SelectSeq(ord, LAMBDA p : p \in DOMAIN n.Branches),
                      1, TRUE, plainSet({}))
    [] n.tag = "value" ->
         LET f == lookupPath(v, n.Path)
         IN IF Exists(f) /\ isAtomKind(ConcreteKind(f))
               /\ atomForValue(f) \in DOMAIN n.Branches
            THEN Check(n.Branches[atomForValue(f)], v, ord)
            ELSE Check(n.Default, v, ord)
    [] n.tag = "error" -> plainSet({})

RECURSIVE isPerfectLeavesOnly(_, _, _)
\* The variant that lets a FieldAbsence node pass.
isPerfectLeavesOnly(n, noAtoms, arms) ==
  CASE n.tag = "nil" -> TRUE
    [] n.tag = "leaf" ->
         \/ setLen(n.Arms) <= 1
         \/ /\ noAtoms
            /\ \A i \in n.Arms.vals : isAtomKind(ConcreteKind(At(arms, i)))
            /\ \A i, j \in n.Arms.vals :
                 ConcreteKind(At(arms, i)) = ConcreteKind(At(arms, j))
    [] n.tag = "kind" ->
         \A k \in DOMAIN n.Branches :
           isPerfectLeavesOnly(n.Branches[k], noAtoms, arms)
    [] n.tag = "absence" -> TRUE
    [] n.tag = "value" ->
         /\ \A k \in DOMAIN n.Branches :
              isPerfectLeavesOnly(n.Branches[k], noAtoms, arms)
         /\ isPerfectLeavesOnly(n.Default, noAtoms, arms)
    [] n.tag = "error" -> TRUE

RECURSIVE isPerfect(_, _, _)
isPerfect(n, noAtoms, arms) ==
  CASE n.tag = "nil" -> TRUE
    [] n.tag = "leaf" ->
         \/ setLen(n.Arms) <= 1
         \/ /\ noAtoms
            /\ \A i \in n.Arms.vals : isAtomKind(ConcreteKind(At(arms, i)))
            /\ \A i, j \in n.Arms.vals :
                 ConcreteKind(At(arms, i)) = ConcreteKind(At(arms, j))
    [] n.tag = "kind" ->
         \A k \in DOMAIN n.Branches : isPerfect(n.Branches[k], noAtoms, arms)
    [] n.tag = "absence" -> FALSE
    [] n.tag = "value" ->
         /\ \A k \in DOMAIN n.Branches : isPerfect(n.Branches[k], noAtoms, arms)
         /\ isPerfect(n.Default, noAtoms, arms)
    [] n.tag = "error" -> TRUE

RECURSIVE Subtrees(_)
\* n and every node below it.
Subtrees(n) ==
  { n } \cup
  CASE n.tag = "kind" ->
         UNION { Subtrees(n.Branches[k]) : k \in DOMAIN n.Branches }
    [] n.tag = "value" ->
         UNION { Subtrees(n.Branches[k]) : k \in DOMAIN n.Branches }
           \cup Subtrees(n.Default)
    [] OTHER -> {}

----------------------------------------------------------------------------
(* The compatibility merger (merge.go).                                     *)

AtomKindBits == NullKind \cup BoolKind \cup NumberKind \cup StringKind \cup BytesKind

\* allAtomsKind: k is made of atom kinds only.
allAtomsKind(k) == k # {} /\ k \subseteq AtomKindBits

intSetN(n) == 0 .. (n - 1)

allLabels == requiredLabel \cup optionalLabel \cup regularLabel

compatibleKinds(arms) ==
  \/ Len(arms) <= 1
  \/ \A i, j \in DOMAIN arms :
       (Exists(arms[i]) /\ Exists(arms[j]))
         => IncompleteKind(arms[i]) = IncompleteKind(arms[j])

\* listType.checkLen and listType.index, on the list itself.
checkLen(v) ==
  IF v.tag # "list" THEN 0
  ELSE Len(v.elems) + (IF Exists(v.rest) THEN 1 ELSE 0)

listIndex(v, i) ==
  IF v.tag # "list" THEN NoValue
  ELSE IF i < Len(v.elems) THEN v.elems[i + 1]
  ELSE IF Exists(v.rest) THEN v.rest
  ELSE NoValue

\* listTypeForValue fails, and listTypes panics, on a value whose Kind() is
\* not list.
listTypesPanics(lists) ==
  \E j \in DOMAIN lists : ConcreteKind(lists[j]) # ListKind

longestOf(lists) ==
  IF lists = << >> THEN 0
  ELSE CHOOSE n \in { checkLen(lists[j]) : j \in DOMAIN lists } :
         \A j \in DOMAIN lists : checkLen(lists[j]) <= n

listValuesAt(lists, i) == [ j \in DOMAIN lists |-> listIndex(lists[j], i) ]

RECURSIVE compatible(_)
RECURSIVE compatiblePanics(_)

\* compatible(arms) when it returns.
compatible(arms) ==
  \/ Len(arms) <= 1
  \/ /\ compatibleKinds(arms)
     /\ IncompleteKind(arms[1]) = StructKind
          => \A e \in SeqRange(allFields(arms, intSetN(Len(arms)), allLabels)) :
               compatibleKinds(e.values)
     /\ IncompleteKind(arms[1]) = ListKind
          => \A i \in 0 .. (longestOf(arms) - 1) :
               compatible(listValuesAt(arms, i))

\* compatible(arms) panics: in listTypes, or in a recursive call it reaches
\* before an index that makes it return false.
compatiblePanics(arms) ==
  /\ Len(arms) > 1
  /\ compatibleKinds(arms)
  /\ IncompleteKind(arms[1]) = ListKind
  /\ \/ listTypesPanics(arms)
     \/ \E i \in 0 .. (longestOf(arms) - 1) :
          /\ compatiblePanics(listValuesAt(arms, i))
          /\ \A j \in 0 .. (i - 1) :
               /\ ~compatiblePanics(listValuesAt(arms, j))
               /\ compatible(listValuesAt(arms, j))

\* composites[k]: the arms of incomplete kind k, a struct or list kind.
composites(arms, k) ==
  SelectSeq(arms, LAMBDA arm : ~allAtomsKind(k) /\ IncompleteKind(arm) = k)

\* byKind[k] after the first two loops; empty when k has no entry.
mergeGroup(arms, k) ==
  IF allAtomsKind(k)
  THEN { i \in Indices(arms) : IncompleteKind(At(arms, i)) = k }
  ELSE IF k \in { StructKind, ListKind } /\ composites(arms, k) # << >>
          /\ compatible(composites(arms, k))
  THEN { i \in Indices(arms) : ConcreteKind(At(arms, i)) = k }
  ELSE {}

RECURSIVE mergeLoop(_, _, _, _, _)
\* The final loop: keep the first arm of every merged group.
mergeLoop(arms, i, done, arms1, revMap) ==
  IF i >= Len(arms) THEN [ arms |-> arms1, rev |-> RevOf(revMap) ]
  ELSE Only({ Only({ IF Cardinality(from) <= 1 \/ k \notin done
                      THEN mergeLoop(arms, i + 1, done \cup { k },
                                     Append(arms1, At(arms, i)),
                                     Append(revMap, IF Cardinality(from) = 0
                                                    THEN { i } ELSE from))
                      ELSE mergeLoop(arms, i + 1, done, arms1, revMap) :
                      from \in { mergeGroup(arms, k) } }) :
               k \in { IncompleteKind(At(arms, i)) } })

mergeCompatible(arms) == mergeLoop(arms, 0, {}, << >>, << >>)

\* mergeCompatible panics when compatible does on the list arms.
mergeCompatiblePanics(arms) == compatiblePanics(composites(arms, ListKind))

----------------------------------------------------------------------------
(* Discriminate.                                                            *)

NoMerge(arms) == [ arms |-> arms, rev |-> NoRev ]

\* The set of all the arms, in the backend the number of arms selects.
allArms(n) == IF n <= WordBits THEN wordSetN(n) ELSE intSetN(n)

\* wordSetN checks n - 1 before it makes the set.
allArmsPanics(n) == n <= WordBits /\ checkWordPanics(n - 1)

\* The node and the perfectness flag, PanicNode standing for a call that
\* panicked; merged is what the merger made of the arms on the way.
Discriminate(origArms, optMergeCompatible) ==
  IF optMergeCompatible /\ mergeCompatiblePanics(origArms)
  THEN [ node |-> PanicNode, perfect |-> FALSE, merged |-> NoMerge(origArms) ]
  ELSE
    Only({ Only({ IF n.tag = "panic"
                   THEN [ node |-> PanicNode, perfect |-> FALSE, merged |-> m ]
                   ELSE [ node |-> n,
                          perfect |-> isPerfect(n, optMergeCompatible, origArms),
                          merged |-> m ] :
                   n \in { IF allArmsPanics(Len(m.arms)) THEN PanicNode
                           ELSE discriminate([ rev |-> m.rev ], m.arms,
                                             allArms(Len(m.arms))) } }) :
            m \in { IF optMergeCompatible THEN mergeCompatible(origArms)
                    ELSE NoMerge(origArms) } })

----------------------------------------------------------------------------
(* The universe of arms and of concrete values the discriminator is run on. *)

MaxArms == 3

NameT == << "t" >>
NameA == << "a" >>
NameB == << "b" >>
NameC == << "c" >>
NameD == << "d" >>
NameK == << "k" >>
NameX == << "x" >>
NameY == << "y" >>
NameXY == << "x", ".", "y" >>

Req(n, v) == Field(n, "required", v)
Reg(n, v) == Field(n, "regular", v)

StrA == VAtom(AtomA, StringKind)
StrB == VAtom(AtomB, StringKind)
IntOne == VAtom(AtomOne, IntKind)

ArmUniverse ==
  { StrA, StrB,
    VAtom(AtomTrue, BoolKind), VAtom(AtomFalse, BoolKind),
    VAtom(AtomNull, NullKind),
    IntOne, VAtom(AtomNeg, IntKind),
    VType(IntKind), VType(StringKind), VType(BoolKind),
    VStruct(<< Req(NameT, StrA) >>),
    VStruct(<< Req(NameT, StrB) >>),
    VStruct(<< Req(NameA, VType(IntKind)) >>),
    VStruct(<< Req(NameB, VType(StringKind)) >>),
    VStruct(<< Req(NameXY, StrA) >>),
    VStruct(<< Req(NameD, VStruct(<< Req(NameK, StrA) >>)) >>),
    VStruct(<< Req(NameD, VStruct(<< Req(NameK, StrB) >>)) >>),
    VOr(<< VStruct(<< Req(NameB, VType(IntKind)) >>),
           VStruct(<< Req(NameC, VType(IntKind)) >>) >>) }

DataUniverse ==
  { StrA, StrB,
    VAtom(AtomTrue, BoolKind), VAtom(AtomNull, NullKind),
    IntOne, VAtom(AtomFrac, FloatKind),
    VStruct(<< >>),
    VStruct(<< Reg(NameT, StrA) >>),
    VStruct(<< Reg(NameT, StrB) >>),
    VStruct(<< Reg(NameA, IntOne) >>),
    VStruct(<< Reg(NameB, StrA) >>),
    VStruct(<< Reg(NameB, IntOne) >>),
    VStruct(<< Reg(NameA, IntOne), Reg(NameB, StrA) >>),
    VStruct(<< Reg(NameXY, StrA) >>),
    VStruct(<< Reg(NameX, VStruct(<< Reg(NameY, StrA) >>)) >>),
    VStruct(<< Reg(NameD, VStruct(<< Reg(NameK, StrA) >>)) >>),
    VStruct(<< Reg(NameD, VStruct(<< Reg(NameK, StrB) >>)) >>) }

RECURSIVE Accepts(_, _)
\* The host library accepts the concrete value v under the schema s:
\* their unification is valid and concrete.  Structs are open.
Accepts(s, v) ==
  CASE s.tag = "atom" -> v.tag = "atom" /\ v.atom = s.atom
    [] s.tag = "type" -> (ConcreteKind(v) \cap s.kind) # {}
    [] s.tag = "or" -> \E j \in DOMAIN s.args : Accepts(s.args[j], v)
    [] s.tag = "struct" ->
         /\ v.tag = "struct"
         /\ \A j \in DOMAIN s.fields :
              LET f == s.fields[j]
                  w == fieldValue(v, f.name, allLabels)
              IN IF Exists(w) THEN Accepts(f.value, w)
                 ELSE f.label = "optional"
    [] OTHER -> FALSE

MapOrders(S) ==
  { q \in [ 1 .. Cardinality(S) -> S ] :
      \A i, j \in DOMAIN q : i # j => q[i] # q[j] }

RECURSIVE AbsencePaths(_)
\* The paths of all the FieldAbsence nodes of a tree.
AbsencePaths(n) ==
  CASE n.tag = "absence" -> DOMAIN n.Branches
    [] n.tag = "kind" ->
         UNION { AbsencePaths(n.Branches[k]) : k \in DOMAIN n.Branches }
    [] n.tag = "value" ->
         UNION { AbsencePaths(n.Branches[k]) : k \in DOMAIN n.Branches }
           \cup AbsencePaths(n.Default)
    [] OTHER -> {}

----------------------------------------------------------------------------
(* State.                                                                   *)

VARIABLES
  arms,      \* the arms handed to Discriminate
  merging,   \* the MergeCompatible option of the call
  phase,     \* "input", then "built" once Discriminate was called, then "checked"
  tree,      \* the node Discriminate returned, PanicNode if it panicked
  perfect,   \* the perfectness flag Discriminate returned
  merged,    \* what mergeCompatible returned inside the call
  val,       \* the value last handed to Check
  got,       \* what Check returned for it
  wreg,      \* the wordSet variables of a client of wordSetAPI
  mreg,      \* the mapSet variables of a client of mapSetAPI: references
  heap,      \* the tables the mapSet references point at
  setsLast,  \* the last setAPI call and what its operands held
  vsX,       \* three value sets, the operands of the valueSet methods
  vsY,
  vsZ,
  vsOp,      \* the valueSet method last called
  vsRes,     \* what it returned
  callIn,    \* the arguments of a call of one of the package's functions
  callStep,  \* "idle", "ready" before the call, "running", then "done"
  callOut    \* what the call has yielded or returned so far

discVars == << arms, merging, phase, tree, perfect, merged, val, got >>

setVars == << wreg, mreg, heap, setsLast >>

vsVars == << vsX, vsY, vsZ, vsOp, vsRes >>

callVars == << callIn, callStep, callOut >>

vars == << discVars, setVars, vsVars, callVars >>

\* No call of a function on its own is under way.
IdleCall ==
  /\ callIn = << >>
  /\ callStep = "idle"
  /\ callOut = << >>

NotMerged == [ arms |-> << >>, rev |-> NoRev ]

InitDisc ==
  /\ arms = << >>
  /\ merging = FALSE
  /\ phase = "input"
  /\ tree = NilNode
  /\ perfect = FALSE
  /\ merged = NotMerged
  /\ val = NoValue
  /\ got = plainSet({})

\* The caller collects one more arm.
AddArm(a) ==
  /\ phase = "input"
  /\ Len(arms) < MaxArms
  /\ arms' = Append(arms, a)
  /\ UNCHANGED << merging, phase, tree, perfect, merged, val, got >>
  /\ UNCHANGED << setVars, vsVars, callVars >>

\* Discriminate(arms, opts...).
CallDiscriminate(opt) ==
  /\ phase = "input"
  /\ \E r \in { Discriminate(arms, opt) } :
       /\ tree' = r.node
       /\ perfect' = r.perfect
       /\ merged' = r.merged
  /\ merging' = opt
  /\ phase' = "built"
  /\ UNCHANGED << arms, val, got >>
  /\ UNCHANGED << setVars, vsVars, callVars >>

\* tree.Check(v), ranging over the FieldAbsence maps in the order ord.
\* Check leaves the tree as it is, so one call reaches every outcome.
CallCheck(v, ord) ==
  /\ phase = "built"
  /\ tree.tag # "panic"
  /\ val' = v
  /\ got' = Check(tree, v, ord)
  /\ phase' = "checked"
  /\ UNCHANGED << arms, merging, tree, perfect, merged >>
  /\ UNCHANGED << setVars, vsVars, callVars >>

----------------------------------------------------------------------------
(* Properties of the discriminator.                                         *)

\* The value val is accepted by arm i and by no other arm.
AcceptedOnlyBy(i) ==
  /\ Accepts(At(arms, i), val)
  /\ \A j \in Indices(arms) \ { i } : ~Accepts(At(arms, j), val)

\* C1: soundness.  For the tree Discriminate returns with merging disabled
\* and any concrete value, an arm that alone accepts the value is in the set
\* Check returns for it.
C1_Soundness ==
  (phase = "checked" /\ ~merging) =>
    \A i \in Indices(arms) : AcceptedOnlyBy(i) => i \in got.vals

\* C2: completeness of Possible.  At the root and at every subtree of the
\* returned tree, the set Check returns for a value is a subset of the set
\* Possible returns.
C2_CheckWithinPossible ==
  phase = "checked" =>
    \A n \in Subtrees(tree) : \A ord \in MapOrders(AbsencePaths(tree)) :
      Check(n, val, ord).vals \subseteq Possible(n).vals

\* A node that may never be reported perfect: a FieldAbsence node or a leaf
\* of two or more arms.
ImperfectNode(n) ==
  \/ n.tag = "absence"
  \/ n.tag = "leaf" /\ Cardinality(n.Arms.vals) >= 2

\* C3: the perfectness law.  With merging disabled, when the tree is
\* reported perfect Check returns at most one arm for every value, and a
\* tree holding a FieldAbsence node or a leaf of two or more arms is
\* reported as not perfect.
C3_PerfectnessLaw ==
  /\ (phase = "checked" /\ ~merging /\ perfect) => Cardinality(got.vals) <= 1
  /\ (phase \in { "built", "checked" } /\ ~merging /\ tree.tag # "panic"
        /\ \E n \in Subtrees(tree) : ImperfectNode(n))
       => ~perfect

\* A perfect tree with a switch at its root has been asked about a value
\* and chose exactly one arm.
C3_Witness ==
  /\ phase = "checked"
  /\ ~merging
  /\ perfect
  /\ tree.tag = "value"
  /\ Cardinality(got.vals) = 1

\* C4: Discriminate is total.  Whatever the arms are, and however many,
\* the call returns a node and a flag and does not panic.
C4_DiscriminateTotal ==
  phase \in { "built", "checked" } => tree.tag # "panic"

\* C5: the merger round trip.  The sets rev(0), ..., rev(len(arms')-1)
\* that mergeCompatible returns are pairwise disjoint and their union is
\* the set of all the indices of the arms.
C5_RevPartition ==
  (phase \in { "built", "checked" } /\ merging) =>
    LET n == Len(merged.arms)
    IN /\ \A i, j \in 0 .. (n - 1) :
            i # j => (revApply(merged.rev, i) \cap revApply(merged.rev, j)) = {}
       /\ UNION { revApply(merged.rev, i) : i \in 0 .. (n - 1) } = Indices(arms)

\* The calls of discriminate made by the call of Discriminate.
CallsMade ==
  IF phase = "input" \/ allArmsPanics(Len(merged.arms)) THEN {}
  ELSE discriminateCalls(merged.arms, allArms(Len(merged.arms)))

\* The selected arms of a call that are not structs.
SelectedNonStructs(c) ==
  { i \in c.selected : (IncompleteKind(At(c.values, i)) \cap StructKind) = {} }

\* C19: in every call of discriminate, top-level and recursive, that gets
\* as far as the root-level attempt, the set of arms that need
\* discriminating is the selected arms that are not structs, or the selected
\* set when there are none; it is a subset of the selected set.
C19_NeedDiscrim ==
  \A c \in CallsMade :
    Cardinality(c.selected) > 1 =>
      /\ needDiscrimOf(c.values, c.selected)
           = IF SelectedNonStructs(c) = {} THEN c.selected
             ELSE SelectedNonStructs(c)
      /\ needDiscrimOf(c.values, c.selected) \subseteq c.selected

\* Three or more struct arms, each with exactly one field, a required one,
\* no two arms with the same field name.
DisjointOneFieldArms ==
  /\ Len(arms) >= 3
  /\ \A j \in DOMAIN arms :
       /\ arms[j].tag = "struct"
       /\ Len(arms[j].fields) = 1
       /\ arms[j].fields[1].label = "required"
  /\ \A j, k \in DOMAIN arms :
       j # k => arms[j].fields[1].name # arms[k].fields[1].name

\* The value v has a field of the name arm i requires.
HasFieldOf(v, i) ==
  \E j \in DOMAIN v.fields : v.fields[j].name = At(arms, i).fields[1].name

\* C12: disjoint one-field structs.  For three or more struct arms, arm i
\* with the single required field f_i and all the f_i distinct, Discriminate
\* returns a FieldAbsence node with one branch for each f_i whose group is
\* every arm but i, reports it as not perfect, and Check of a struct value
\* is exactly the set of the arms i whose f_i the value has.
C12_DisjointStructs ==
  (phase \in { "built", "checked" } /\ ~merging /\ DisjointOneFieldArms) =>
    /\ tree.tag = "absence"
    /\ DOMAIN tree.Branches = { At(arms, i).fields[1].name : i \in Indices(arms) }
    /\ \A i \in Indices(arms) :
         tree.Branches[At(arms, i).fields[1].name].vals = Indices(arms) \ { i }
    /\ ~perfect
    /\ (phase = "checked" /\ val.tag = "struct") =>
         got.vals = { i \in Indices(arms) : HasFieldOf(val, i) }

----------------------------------------------------------------------------
(* A client of the two set backends: it holds NumSets variables of each     *)
(* type and makes the same setAPI calls on both.                            *)

NumSets == 2

SetVars == 1 .. NumSets

Refs == 1 .. NumSets

\* The elements the client uses: the two ends of 0..63.
Elems == { 0, WordBits - 1 }

\* The tables still referenced by a variable; the others are garbage.
collect(h, m) ==
  [ r \in Refs |-> IF \E q \in SetVars : m[q] = r THEN h[r] ELSE {} ]

\* A reference no variable other than t holds.
freshRef(m, t) ==
  CHOOSE r \in Refs :
    /\ \A q \in SetVars \ { t } : m[q] # r
    /\ \A r2 \in Refs : (\A q \in SetVars \ { t } : m[q] # r2) => r <= r2

\* The heap after variable t is assigned the result res of a mapSet call.
storeHeap(h, m, t, res) ==
  IF res.fresh
  THEN collect([ h EXCEPT ![freshRef(m, t)] = res.keys ],
               [ m EXCEPT ![t] = freshRef(m, t) ])
  ELSE collect(h, [ m EXCEPT ![t] = res.ref ])

\* The variables after that assignment.
storeRef(m, t, res) ==
  IF res.fresh THEN [ m EXCEPT ![t] = freshRef(m, t) ]
  ELSE [ m EXCEPT ![t] = res.ref ]

\* A call of a binary operation: what its operands held in each backend.
Called(op, t, a, b) ==
  [ op |-> op, t |-> t,
    wa |-> wreg[a], wb |-> wreg[b],
    ma |-> mapKeys(heap, mreg[a]), mb |-> mapKeys(heap, mreg[b]) ]

\* A call of any other operation.
CalledOn(op, t) ==
  [ op |-> op, t |-> t, wa |-> {}, wb |-> {}, ma |-> {}, mb |-> {} ]

InitSets ==
  /\ wreg = [ r \in SetVars |-> wordMake ]
  /\ mreg = [ r \in SetVars |-> NilRef ]
  /\ heap = [ r \in Refs |-> {} ]
  /\ setsLast = CalledOn("none", 1)

\* Assign to both variables t what the two backends returned.
Assign(t, w, res) ==
  /\ wreg' = [ wreg EXCEPT ![t] = w ]
  /\ mreg' = storeRef(mreg, t, res)
  /\ heap' = storeHeap(heap, mreg, t, res)

\* t = sets.of(xs...)
SetOf(t, xs) ==
  /\ Assign(t, wordOf(xs), mapOf(xs))
  /\ setsLast' = CalledOn("of", t)
  /\ UNCHANGED << discVars, vsVars, callVars >>

\* t = sets.make()
SetMake(t) ==
  /\ Assign(t, wordMake, mapMake)
  /\ setsLast' = CalledOn("make", t)
  /\ UNCHANGED << discVars, vsVars, callVars >>

\* sets.add(&t, x): the map t refers to is written in place.
SetAdd(t, x) ==
  /\ wreg' = [ wreg EXCEPT ![t] = wordAdd(wreg[t], x) ]
  /\ IF mreg[t] = NilRef
     THEN /\ mreg' = storeRef(mreg, t, Made({ x }))
          /\ heap' = storeHeap(heap, mreg, t, Made({ x }))
     ELSE /\ mreg' = mreg
          /\ heap' = [ heap EXCEPT ![mreg[t]] = @ \cup { x } ]
  /\ setsLast' = CalledOn("add", t)
  /\ UNCHANGED << discVars, vsVars, callVars >>

\* sets.delete(&t, x)
SetDelete(t, x) ==
  /\ wreg' = [ wreg EXCEPT ![t] = wordDelete(wreg[t], x) ]
  /\ mreg' = mreg
  /\ heap' = IF mreg[t] = NilRef THEN heap
             ELSE [ heap EXCEPT ![mreg[t]] = @ \ { x } ]
  /\ setsLast' = CalledOn("delete", t)
  /\ UNCHANGED << discVars, vsVars, callVars >>

\* t = sets.union(a, b)
SetUnion(t, a, b) ==
  /\ Assign(t, wordUnion(wreg[a], wreg[b]), mapUnion(heap, mreg[a], mreg[b]))
  /\ setsLast' = Called("union", t, a, b)
  /\ UNCHANGED << discVars, vsVars, callVars >>

\* t = sets.intersect(a, b)
SetIntersect(t, a, b) ==
  /\ Assign(t, wordIntersect(wreg[a], wreg[b]),
            mapIntersect(heap, mreg[a], mreg[b]))
  /\ setsLast' = Called("intersect", t, a, b)
  /\ UNCHANGED << discVars, vsVars, callVars >>

\* t = sets.clone(a)
SetClone(t, a) ==
  /\ Assign(t, wordClone(wreg[a]), mapClone(heap, mreg[a]))
  /\ setsLast' = CalledOn("clone", t)
  /\ UNCHANGED << discVars, vsVars, callVars >>

\* What the two backends let the client see of variable r.
SameView(r) ==
  /\ \A x \in Elems : wordHas(wreg[r], x) <=> mapHas(heap, mreg[r], x)
  /\ wordLen(wreg[r]) = mapLen(heap, mreg[r])
  /\ SeqRange(wordValues(wreg[r])) = mapValues(heap, mreg[r])
  /\ \A q \in SetVars :
       wordEqual(wreg[r], wreg[q]) <=> mapEqual(heap, mreg[r], mreg[q])

\* C6: the two backends are observationally equivalent.  After every
\* sequence of of, add, delete, union, intersect and clone calls over
\* elements of 0..63 the bitmap and the hash backend agree on has, len, equal
\* and the values of every set, and union and intersect return the
\* mathematical union and intersection of their operands.
C6_BackendsAgree ==
  /\ \A r \in SetVars : SameView(r)
  /\ setsLast.op = "union" =>
       /\ wreg[setsLast.t] = setsLast.wa \cup setsLast.wb
       /\ mapKeys(heap, mreg[setsLast.t]) = setsLast.ma \cup setsLast.mb
  /\ setsLast.op = "intersect" =>
       /\ wreg[setsLast.t] = setsLast.wa \cap setsLast.wb
       /\ mapKeys(heap, mreg[setsLast.t]) = setsLast.ma \cap setsLast.mb

----------------------------------------------------------------------------
(* The value-set algebra, applied to operands drawn from the normal-form    *)
(* sets over a few kinds and atoms.                                         *)

VSKindBits == BoolKind \cup IntKind \cup FloatKind

VSAtoms == { AtomTrue, AtomOne, AtomA }

\* The normal-form value sets over VSKindBits and VSAtoms, and the set
\* valueSetForValue makes of the atom -1.
VSUniverse ==
  { s \in [ types : SUBSET VSKindBits, consts : SUBSET VSAtoms ] :
      IsNormalForm(s) }
  \cup { [ types |-> {}, consts |-> { AtomNeg } ] }

\* The schema values valueSetForValue is applied to.
VSValues ==
  ArmUniverse \cup
  { VType(NumberKind), VType(NullKind), NoValue,
    VOr(<< VType(BoolKind), VAtom(AtomTrue, BoolKind) >>),
    VOr(<< IntOne, VType(IntKind) >>),
    VOr(<< IntOne, VType(StringKind) >>),
    VOr(<< StrA, StrB, VAtom(AtomNull, NullKind) >>),
    VOr(<< StrA, VAtom(AtomNeg, IntKind) >>) }

InitVS ==
  /\ vsX \in VSUniverse
  /\ vsY \in VSUniverse
  /\ vsZ \in VSUniverse
  /\ vsOp = "none"
  /\ vsRes = EmptyVS

IdleVS ==
  /\ vsX = EmptyVS
  /\ vsY = EmptyVS
  /\ vsZ = EmptyVS
  /\ vsOp = "none"
  /\ vsRes = EmptyVS

Returned(op, res) ==
  /\ vsOp = "none"
  /\ vsOp' = op
  /\ vsRes' = res
  /\ UNCHANGED << vsX, vsY, vsZ, discVars, setVars, callVars >>

\* vsX.union(vsY)
VSUnion == Returned("union", vsUnion(vsX, vsY))

\* vsX.intersect(vsY)
VSIntersect == Returned("intersect", vsIntersect(vsX, vsY))

\* vsX.without(vsY)
VSWithout == Returned("without", vsWithout(vsX, vsY))

\* vsX.normalize()
VSNormalize == Returned("normalize", normalize(vsX))

\* valueSetForValue(v)
VSForValue(v) == Returned("forValue", valueSetForValue(v))

\* The call returned: it did not panic in Atom.kind.
DidReturn(s) == s # PanicVS

\* C7: intersect distributes over union.  For all normal-form value sets
\* x, y and z, x.intersect(y.union(z)) equals
\* x.intersect(y).union(x.intersect(z)).
C7_IntersectDistributes ==
  vsOp = "intersect" =>
    vsIntersect(vsX, vsUnion(vsY, vsZ))
      = vsUnion(vsRes, vsIntersect(vsX, vsZ))

\* C8: union is commutative and associative.  For all normal-form value
\* sets x, y and z, x.union(y) equals y.union(x) and x.union(y).union(z)
\* equals x.union(y.union(z)).
C8_UnionCommAssoc ==
  vsOp = "union" =>
    /\ vsRes = vsUnion(vsY, vsX)
    /\ vsUnion(vsRes, vsZ) = vsUnion(vsX, vsUnion(vsY, vsZ))

\* A union of two sets that both hold constants has been computed.
C8_Witness ==
  /\ vsOp = "union"
  /\ DidReturn(vsRes)
  /\ vsX.consts # {}
  /\ vsY.consts # {}
  /\ vsX # vsY
  /\ vsRes.consts # {}

\* C9: absorption.  For all normal-form value sets x and y,
\* x.union(y).intersect(x) equals x, and x.without(x) is empty.
C9_Absorption ==
  /\ vsOp = "union" => vsIntersect(vsRes, vsX) = vsX
  /\ (vsOp = "without" /\ vsX = vsY) => isEmpty(vsRes)

\* C10: the normal-form invariant.  Every value set that valueSetForValue,
\* union, intersect or without returns is in normal form: no constant has a
\* kind that overlaps the types; and normalize returns a normal-form set
\* unchanged.
C10_NormalForm ==
  /\ (vsOp \in { "forValue", "union", "intersect", "without" }
        /\ DidReturn(vsRes))
       => /\ IsNormalForm(vsRes)
          /\ normalize(vsRes) = vsRes
  /\ vsOp = "normalize" => vsRes = vsX

----------------------------------------------------------------------------
(* The field walker on its own: a consumer ranges over allFields and may    *)
(* stop at any yield.                                                       *)

MaxWalkArms == 2

Opt(n, v) == Field(n, "optional", v)

NameM == << "m" >>
NameZ == << "z" >>

\* Structs whose struct-valued fields come first in source order, nested to
\* three levels, and an atom.
WalkUniverse ==
  { StrA,
    VStruct(<< Req(NameB, VStruct(<< Req(NameX, VType(StringKind)) >>)),
               Req(NameA, VType(IntKind)) >>),
    VStruct(<< Req(NameB, VStruct(<< Req(NameY, StrA) >>)),
               Req(NameC, VAtom(AtomNull, NullKind)) >>),
    VStruct(<< Req(NameB, VType(IntKind)) >>),
    VStruct(<< Req(NameD, VStruct(<< Req(NameM, VStruct(<< Req(NameZ, IntOne) >>)),
                                     Req(NameK, StrA) >>)),
               Opt(NameT, VType(StringKind)) >>),
    VStruct(<< Req(NameD, VStruct(<< Req(NameM, VStruct(<< Req(NameK, StrB) >>))
                                  >>)),
               Reg(NameA, VStruct(<< Req(NameX, IntOne) >>)) >>) }

WalkInputs ==
  { [ fn |-> "allFields", values |-> vs, selected |-> sel, labelTypes |-> lt ] :
      vs \in UNION { [ 1 .. n -> WalkUniverse ] : n \in 1 .. MaxWalkArms },
      sel \in SUBSET (0 .. (MaxWalkArms - 1)),
      lt \in { requiredLabel, allLabels } }

InitWalk ==
  /\ callIn \in WalkInputs
  /\ callStep = "ready"
  /\ callOut = << >>

\* Everything the iterator would yield if the consumer never stopped.
walkAll == allFields(callIn.values, callIn.selected, callIn.labelTypes)

\* The iterator yields its next pair to the consumer.
WalkYield ==
  /\ callStep \in { "ready", "running" }
  /\ Len(callOut) < Len(walkAll)
  /\ callOut' = Append(callOut, walkAll[Len(callOut) + 1])
  /\ callStep' = "running"
  /\ UNCHANGED << callIn, discVars, setVars, vsVars >>

\* The iterator returns: it has no more to yield, or yield returned false.
WalkReturn ==
  /\ callStep \in { "ready", "running" }
  /\ Len(callOut) = Len(walkAll) \/ callStep = "running"
  /\ callStep' = "done"
  /\ UNCHANGED << callIn, callOut, discVars, setVars, vsVars >>

\* The path of the struct a yielded path is a field of.
ParentPath(path) ==
  IF Len(path) <= 1 THEN RootPath ELSE SubSeq(path, 1, Len(path) - 2)

\* The field names along a path, outermost first.
PathNames(path) ==
  IF path = RootPath THEN << >>
  ELSE [ j \in 1 .. ((Len(path) + 1) \div 2) |-> << path[2 * j - 1] >> ]

RECURSIVE Descend(_, _, _)
\* The value found in v by following names through fields of types lt.
Descend(v, names, lt) ==
  IF names = << >> THEN v
  ELSE IF v.tag # "struct" THEN NoValue
  ELSE LET fs == { j \in DOMAIN v.fields :
                     v.fields[j].name = Head(names) /\ v.fields[j].label \in lt }
       IN IF fs = {} THEN NoValue
          ELSE Descend(v.fields[CHOOSE j \in fs : TRUE].value, Tail(names), lt)

\* The selected arms' values at a path.
ValuesAt(path) ==
  { Descend(At(callIn.values, i), PathNames(path), callIn.labelTypes) :
      i \in Indices(callIn.values) \cap callIn.selected }

\* The names of the fields the selected arms have in the struct at a path.
LevelNames(path) ==
  UNION { { w.fields[j].name :
              j \in { j \in DOMAIN w.fields :
                        w.fields[j].label \in callIn.labelTypes } } :
          w \in { u \in ValuesAt(path) : u.tag = "struct" } }

\* A field some selected arm gives a value that is not a struct.
HasNonStructValue(path) ==
  \E w \in ValuesAt(path) : Exists(w) /\ IncompleteKind(w) # StructKind

\* C11: the ordering of the field walker.  Among the pairs allFields has
\* yielded, at every struct level a field with a non-struct value in some
\* selected arm comes before every field of that level whose values are all
\* structs, and a child of a struct-only field comes only after every field
\* of that field's own level has been yielded.
C11_WalkerOrdering ==
  callStep \in { "running", "done" } =>
    \A p, q \in DOMAIN callOut :
      /\ ( /\ ParentPath(callOut[p].path) = ParentPath(callOut[q].path)
           /\ HasNonStructValue(callOut[p].path)
           /\ ~HasNonStructValue(callOut[q].path) ) => p < q
      /\ ParentPath(callOut[q].path) = callOut[p].path =>
           /\ ~HasNonStructValue(callOut[p].path)
           /\ \A n \in LevelNames(ParentPath(callOut[p].path)) :
                \E r \in 1 .. (q - 1) :
                  callOut[r].path = pathConcat(ParentPath(callOut[p].path), n)

\* The walker has yielded a field with a non-struct value, then a struct-only
\* field of the same level that comes first in the source, then a child of it.
C11_Witness ==
  /\ callStep = "running"
  /\ \E p, q, r \in DOMAIN callOut :
       /\ p < q /\ q < r
       /\ ParentPath(callOut[p].path) = ParentPath(callOut[q].path)
       /\ HasNonStructValue(callOut[p].path)
       /\ ~HasNonStructValue(callOut[q].path)
       /\ ParentPath(callOut[r].path) = callOut[q].path
       /\ \E i \in Indices(callIn.values) \cap callIn.selected :
            LET w == At(callIn.values, i)
            IN /\ w.tag = "struct" /\ Len(w.fields) >= 2
               /\ w.fields[1].name = callOut[q].path
               /\ w.fields[2].name = callOut[p].path

----------------------------------------------------------------------------
(* Disjunctions: the arms of a value.                                       *)

\* The splitter without the test on n: every matchN call over a list is
\* split.
RECURSIVE appendDisjunctionsUngated(_, _)
appendDisjunctionsUngated(dst, v) ==
  LET RECURSIVE each(_, _)
      each(d, vs) ==
        IF vs = << >> THEN d
        ELSE each(appendDisjunctionsUngated(d, Head(vs)), Tail(vs))
  IN IF ExprOp(v) = "or" THEN each(dst, v.args)
     ELSE IF ExprOp(v) = "call" /\ v.fn = "matchN" /\ IsList(v.list)
       THEN each(dst, v.list.elems)
     ELSE Append(dst, v)

\* The loops of the splitter, appending each element as it is.
appendEachShallow(dst, vs) == dst \o vs

RECURSIVE appendDisjunctions(_, _)
RECURSIVE appendEach(_, _)

\* for _, v := range vs { dst = appendDisjunctions(dst, v) }
appendEach(dst, vs) ==
  IF vs = << >> THEN dst
  ELSE appendEach(appendDisjunctions(dst, Head(vs)), Tail(vs))

appendDisjunctions(dst, v) ==
  IF ExprOp(v) = "or" THEN appendEach(dst, v.args)
  ELSE IF ExprOp(v) = "call"
    THEN IF v.fn # "matchN" THEN Append(dst, v)
         ELSE IF ~IsList(v.list) THEN Append(dst, v)
         ELSE IF Int64Ok(v.n)
                   /\ (Int64(v.n) = 0 \/ Int64(v.n) = Len(v.list.elems))
           THEN Append(dst, v)
         ELSE appendEach(dst, v.list.elems)
  ELSE Append(dst, v)

Disjunctions(v) == appendDisjunctions(<< >>, v)

MaxListLen == 2

IntZero == VAtom(<< "0" >>, IntKind)
IntTwo == VAtom(<< "2" >>, IntKind)
BoolTrue == VAtom(AtomTrue, BoolKind)

DisjLeaves == { StrA, StrB, BoolTrue }

MatchCounts == { IntZero, IntOne, IntTwo, VAtom(AtomNeg, IntKind), VType(IntKind) }

ListsOver(S) == UNION { [ 1 .. n -> S ] : n \in 0 .. MaxListLen }

\* Disjunctions and matchN calls over leaves, and calls that are not matchN
\* or whose last argument is not a list.
DisjLevel1 ==
  { VOr(<< a, b >>) : a, b \in DisjLeaves }
    \cup { VCall("matchN", n, VList(l)) : n \in MatchCounts, l \in ListsOver(DisjLeaves) }
    \cup { VCall("len", IntOne, VList(<< StrA, StrB >>)),
           VCall("matchN", IntOne, StrA) }

DisjInner ==
  DisjLeaves
    \cup { VOr(<< StrA, StrB >>),
           VCall("matchN", IntOne, VList(<< StrB, BoolTrue >>)),
           VCall("matchN", IntOne, VList(<< VOr(<< StrA, StrB >>) >>)),
           VCall("matchN", IntTwo, VList(<< StrA, BoolTrue >>)),
           VCall("matchN", IntZero, VList(<< StrA, StrB >>)) }

DisjLevel2 ==
  { VOr(<< a, b >>) : a, b \in DisjInner }
    \cup { VCall("matchN", n, VList(l)) :
             n \in { IntZero, IntOne, IntTwo }, l \in ListsOver(DisjInner) }

DisjUniverse == DisjLeaves \cup DisjLevel1 \cup DisjLevel2

InitDisj ==
  /\ callIn \in { [ fn |-> "Disjunctions", v |-> v ] : v \in DisjUniverse }
  /\ callStep = "ready"
  /\ callOut = << >>

CallDisjunctions ==
  /\ callStep = "ready"
  /\ callIn.fn = "Disjunctions"
  /\ callOut' = Disjunctions(callIn.v)
  /\ callStep' = "done"
  /\ UNCHANGED << callIn, discVars, setVars, vsVars >>

DisjReturned == callStep = "done" /\ callIn.fn = "Disjunctions"

IsMatchN(v) == v.tag = "call" /\ v.fn = "matchN" /\ IsList(v.list)

RECURSIVE Concat(_)
Concat(ss) == IF ss = << >> THEN << >> ELSE Head(ss) \o Concat(Tail(ss))

\* The split of each list element, one after the other.
SplitOfElements(v) ==
  Concat([ i \in DOMAIN v.list.elems |-> Disjunctions(v.list.elems[i]) ])

Splittable(v) ==
  /\ IsMatchN(v)
  /\ ~(Int64Ok(v.n) /\ Int64(v.n) \in { 0, Len(v.list.elems) })

\* The leaves of the or/matchN structure of v, depth first, left to right.
RECURSIVE Leaves(_)
Leaves(v) ==
  IF v.tag = "or"
    THEN Concat([ i \in DOMAIN v.args |-> Leaves(v.args[i]) ])
  ELSE IF Splittable(v)
    THEN Concat([ i \in DOMAIN v.list.elems |-> Leaves(v.list.elems[i]) ])
  ELSE << v >>

\* C14: Disjunctions returns the leaves of the nested or/matchN structure in
\* left-to-right depth-first order, and exactly [v] when v is neither a
\* disjunction nor a splittable matchN call.
C14_LeavesInOrder ==
  DisjReturned =>
    /\ callOut = Leaves(callIn.v)
    /\ (callIn.v.tag # "or" /\ ~Splittable(callIn.v)) => callOut = << callIn.v >>

C14_Witness ==
  /\ DisjReturned
  /\ callIn.v = VOr(<< VCall("matchN", IntOne, VList(<< StrB, BoolTrue >>)),
                       VOr(<< StrA, StrB >>) >>)
  /\ callOut = << StrB, BoolTrue, StrA, StrB >>

----------------------------------------------------------------------------
(* The merger on its own, over arms that include lists.                     *)

MaxMergeArms == 3

ListOfInts == VList(<< VType(IntKind) >>)

MergeUniverse ==
  { StrA, StrB, IntOne, VType(StringKind),
    VStruct(<< Req(NameA, VType(IntKind)) >>),
    VStruct(<< Req(NameB, VType(StringKind)) >>),
    VStruct(<< Req(NameA, VType(StringKind)) >>),
    VOr(<< VStruct(<< Req(NameB, VType(IntKind)) >>),
           VStruct(<< Req(NameC, VType(IntKind)) >>) >>),
    VList(<< VType(StringKind) >>),
    VList(<< VType(StringKind), VType(IntKind) >>),
    ListOfInts,
    VOpenList(<< VType(StringKind) >>, VStruct(<< Req(NameA, VType(IntKind)) >>)),
    VList(<< ListOfInts, ListOfInts >>),
    VList(<< ListOfInts >>),
    VOr(<< ListOfInts, VList(<< VType(StringKind) >>) >>) }

PanicMerge == [ arms |-> << >>, rev |-> NoRev ]

InitMerge ==
  /\ callIn \in { [ fn |-> "mergeCompatible", arms |-> as ] :
                    as \in UNION { [ 1 .. n -> MergeUniverse ] : n \in 0 .. MaxMergeArms } }
  /\ callStep = "ready"
  /\ callOut = << >>

CallMergeCompatible ==
  /\ callStep = "ready"
  /\ callIn.fn = "mergeCompatible"
  /\ callOut' = IF mergeCompatiblePanics(callIn.arms) THEN PanicMerge
                ELSE mergeCompatible(callIn.arms)
  /\ callStep' = "done"
  /\ UNCHANGED << callIn, discVars, setVars, vsVars >>

MergeReturned == callStep = "done" /\ callIn.fn = "mergeCompatible"

\* The indices of the input arms of incomplete kind k.
ArmsOfKind(k) ==
  { i \in Indices(callIn.arms) : IncompleteKind(At(callIn.arms, i)) = k }

\* The input arms of incomplete kind k, in order.
ArmSeqOfKind(k) == SelectSeq(callIn.arms, LAMBDA a : IncompleteKind(a) = k)

\* The output arms of incomplete kind k.
OutputsOfKind(k) ==
  { j \in Indices(callOut.arms) : IncompleteKind(At(callOut.arms, j)) = k }

\* The arms of kind k are one output arm, with all their indices as its rev.
MergedTogether(k) ==
  /\ Cardinality(OutputsOfKind(k)) = 1
  /\ \A j \in OutputsOfKind(k) : revApply(callOut.rev, j) = ArmsOfKind(k)

\* Every arm of kind k is an output arm of its own, with itself as its rev.
KeptApart(k) ==
  /\ Cardinality(OutputsOfKind(k)) = Cardinality(ArmsOfKind(k))
  /\ \A i \in ArmsOfKind(k) :
       \E j \in OutputsOfKind(k) :
         /\ At(callOut.arms, j) = At(callIn.arms, i)
         /\ revApply(callOut.rev, j) = { i }

\* C15: the merger merges the struct arms, and likewise the list arms, all
\* together or not at all.  When all the arms of the kind are mutually
\* compatible they are one output arm whose rev is the set of all their
\* indices; when they are not, every one of them is an output arm of its
\* own with a singleton rev.  The arms of one atom kind are always one
\* output arm.
C15_AllOrNothing ==
  MergeReturned =>
    /\ callOut # PanicMerge \/ callIn.arms = << >>
    /\ \A k \in { StructKind, ListKind } :
         (ArmsOfKind(k) # {} /\ ~compatiblePanics(ArmSeqOfKind(k))) =>
           IF compatible(ArmSeqOfKind(k)) THEN MergedTogether(k) ELSE KeptApart(k)
    /\ \A i \in Indices(callIn.arms) :
         allAtomsKind(IncompleteKind(At(callIn.arms, i))) =>
           MergedTogether(IncompleteKind(At(callIn.arms, i)))

----------------------------------------------------------------------------
(* FieldAbsenceNode.Check on its own, over any map from paths to groups.    *)

MaxAbsenceArms == 3

AbsencePathNames == { NameA, NameB, NameC }

AbsenceGroups == { plainSet(g) : g \in (SUBSET (0 .. (MaxAbsenceArms - 1))) \ { {} } }

AbsenceNodes ==
  { FieldAbsenceNode(b) :
      b \in UNION { [ D -> AbsenceGroups ] : D \in (SUBSET AbsencePathNames) \ { {} } } }

\* The structs that have some of the paths as regular fields.
AbsenceValues ==
  { VStruct(SelectSeq(<< Reg(NameA, IntOne), Reg(NameB, StrA), Reg(NameC, StrB) >>,
                      LAMBDA f : f.name \in D)) : D \in SUBSET AbsencePathNames }

InitAbsence ==
  /\ callIn \in { [ fn |-> "Check", node |-> n, v |-> v ] :
                    n \in AbsenceNodes, v \in AbsenceValues }
  /\ callStep = "ready"
  /\ callOut = << >>

\* n.Check(v), the range over n.Branches going in the order ord.
CallAbsenceCheck(ord) ==
  /\ callStep = "ready"
  /\ callIn.fn = "Check"
  /\ callOut' = Check(callIn.node, callIn.v, ord)
  /\ callStep' = "done"
  /\ UNCHANGED << callIn, discVars, setVars, vsVars >>

AbsenceReturned == callStep = "done" /\ callIn.fn = "Check"

\* The paths of the node that v lacks.
AbsentPaths ==
  { p \in DOMAIN callIn.node.Branches : ~Exists(lookupPath(callIn.v, p)) }

\* The arms that are in the group of every path of P.
InAllGroups(P) ==
  { i \in 0 .. (MaxAbsenceArms - 1) :
      \A p \in P : i \in callIn.node.Branches[p].vals }

\* C16: when v lacks at least one of the paths of a FieldAbsence node,
\* Check(v) is the intersection of the groups of all the paths it lacks,
\* whatever the order the branches are visited in; when it lacks none,
\* Check(v) is the union of all the groups.
C16_AbsenceIntersection ==
  AbsenceReturned =>
    IF AbsentPaths # {}
    THEN callOut.vals = InAllGroups(AbsentPaths)
    ELSE callOut.vals
           = UNION { callIn.node.Branches[p].vals : p \in DOMAIN callIn.node.Branches }

----------------------------------------------------------------------------
(* Go's order of strings, and slices.Sorted over a set of them.             *)

\* The characters of the model's strings, in byte order.
ByteOrder ==
  << "\"", "'", "-", "." >> \o DigitSeq
    \o << "a", "b", "c", "d", "e", "f", "g", "h", "i", "j", "k", "l", "m",
          "n", "o", "p", "q", "r", "s", "t", "u", "v", "w", "x", "y", "z" >>

byteOf(c) == CHOOSE i \in DOMAIN ByteOrder : ByteOrder[i] = c

RECURSIVE stringLess(_, _)
stringLess(a, b) ==
  IF b = << >> THEN FALSE
  ELSE IF a = << >> THEN TRUE
  ELSE IF Head(a) # Head(b) THEN byteOf(Head(a)) < byteOf(Head(b))
  ELSE stringLess(Tail(a), Tail(b))

RECURSIVE sortedStrings(_)
sortedStrings(S) ==
  IF S = {} THEN << >>
  ELSE Only({ << m >> \o sortedStrings(S \ { m }) :
               m \in { x \in S : \A y \in S : x = y \/ stringLess(x, y) } })

----------------------------------------------------------------------------
(* DataTypeForValues (merge.go): the syntax of a type that holds the        *)
(* instances of all the arms.  PanicExpr stands for a call that panicked.   *)

PanicExpr == [ tag |-> "panic" ]

\* syntaxForKind: "_" for all the kinds, or the kinds of k in the order of
\* allKinds, joined by "|".
syntaxForKind(k) ==
  IF TopKind \subseteq k THEN [ tag |-> "ident", name |-> "_" ]
  ELSE [ tag |-> "or",
         args |-> SelectSeq(allKinds, LAMBDA ak : ak # {} /\ ak \subseteq k) ]

labelTypeOr(t1, t2) == IF t1 = t2 THEN t1 ELSE "optional"

\* The fields map after the loops over the arms and their fields; entries
\* is every field of every arm, in order.
RECURSIVE fieldInfos(_, _)
fieldInfos(entries, fields) ==
  IF entries = << >> THEN fields
  ELSE Only({ fieldInfos(Tail(entries),
                         Put(fields, Head(entries).name,
                             [ labelType |-> labelTypeOr(Head(entries).label,
                                                         info.labelType),
                               values |-> Append(info.values, Head(entries).value) ])) :
               info \in { IF Head(entries).name \in DOMAIN fields
                          THEN fields[Head(entries).name]
                          ELSE [ labelType |-> Head(entries).label,
                                 values |-> << >> ] } })

RECURSIVE DataTypeForValues(_)
RECURSIVE dataTypeForStruct(_)
RECURSIVE dataTypeForList(_)

\* A struct or list literal, or a panic if a part panicked.
litOf(tag, elts) ==
  IF \E i \in DOMAIN elts : elts[i].tag = "panic" THEN PanicExpr
  ELSE [ tag |-> tag, elts |-> elts ]

dataTypeForStruct(schemas) ==
  Only({ litOf("struct",
               [ i \in DOMAIN names |->
                   Only({ IF v.tag = "panic" THEN PanicExpr
                          ELSE [ tag |-> "field", name |-> names[i],
                                 constraint |-> fields[names[i]].labelType,
                                 value |-> v ] :
                          v \in { DataTypeForValues(fields[names[i]].values) } }) ]) :
          fields \in { fieldInfos(Concat([ j \in DOMAIN schemas |->
                                             structFields(schemas[j], allLabels) ]),
                                  EmptyMap) },
          names \in { sortedStrings({ f.name : f \in UNION {
                         SeqRange(structFields(schemas[j], allLabels)) : j \in DOMAIN schemas } }) } })

dataTypeForList(schemas) ==
  IF listTypesPanics(schemas) THEN PanicExpr
  ELSE litOf("list",
             [ i \in 1 .. (longestOf(schemas) + 1) |->
                 Only({ IF i - 1 < longestOf(schemas)
                             \/ ~(\E j \in DOMAIN schemas : Exists(schemas[j].rest))
                             \/ elem.tag = "panic"
                        THEN elem
                        ELSE [ tag |-> "ellipsis", type |-> elem ] :
                        elem \in { DataTypeForValues(listValuesAt(schemas, i - 1)) } }) ])

DataTypeForValues(schemas) ==
  IF schemas = << >> THEN PanicExpr
  ELSE Only({ IF Cardinality(k) > 1 THEN syntaxForKind(k)
              ELSE IF k = StructKind THEN dataTypeForStruct(schemas)
              ELSE IF k = ListKind THEN dataTypeForList(schemas)
              ELSE syntaxForKind(k) :
              k \in { UNION { IncompleteKind(schemas[j]) : j \in DOMAIN schemas } } })

MaxTypeArms == 2

\* What one arm holds for each field name: nothing, or the field with one of
\* the three label types.
FieldChoices == { "absent", "required", "optional", "regular" }

fieldOf(n, l) ==
  Field(n, l, IF n = NameB THEN VStruct(<< Req(NameK, StrA) >>)
              ELSE IF n = NameC /\ l = "required" THEN VType(StringKind)
              ELSE VType(IntKind))

\* Struct arms over the names c, a, b, in that order in the source.
TypeArms ==
  { VStruct(SelectSeq([ i \in 1 .. 3 |-> fieldOf(<< NameC, NameA, NameB >>[i], ch[i]) ],
                      LAMBDA f : f.label # "absent")) :
      ch \in [ 1 .. 3 -> FieldChoices ] }

InitType ==
  /\ callIn \in { [ fn |-> "DataTypeForValues", arms |-> as ] :
                    as \in UNION { [ 1 .. n -> TypeArms ] : n \in 1 .. MaxTypeArms } }
  /\ callStep = "ready"
  /\ callOut = << >>

CallDataTypeForValues ==
  /\ callStep = "ready"
  /\ callIn.fn = "DataTypeForValues"
  /\ callOut' = DataTypeForValues(callIn.arms)
  /\ callStep' = "done"
  /\ UNCHANGED << callIn, discVars, setVars, vsVars >>

TypeReturned == callStep = "done" /\ callIn.fn = "DataTypeForValues"

\* The label types the arms give the field called name, "absent" for an arm
\* without it.
LabelsOf(name) ==
  { IF \E f \in SeqRange(callIn.arms[j].fields) : f.name = name
    THEN (CHOOSE f \in SeqRange(callIn.arms[j].fields) : f.name = name).label
    ELSE "absent" : j \in DOMAIN callIn.arms }

\* C17: in the struct made for struct arms, a field is marked required
\* exactly when it is required in every arm and optional in every other
\* case; the fields are all the fields of the arms, in sorted name order.
C17_RequiredInEveryArm ==
  TypeReturned =>
    /\ callOut.tag = "struct"
    /\ { callOut.elts[i].name : i \in DOMAIN callOut.elts }
         = { n \in { NameA, NameB, NameC } : LabelsOf(n) # { "absent" } }
    /\ \A i, j \in DOMAIN callOut.elts :
         i < j => stringLess(callOut.elts[i].name, callOut.elts[j].name)
    /\ \A i \in DOMAIN callOut.elts :
         callOut.elts[i].constraint
           = IF LabelsOf(callOut.elts[i].name) = { "required" }
             THEN "required" ELSE "optional"

----------------------------------------------------------------------------
(* NodeString (node.go).  The text is a sequence of lines; a line is its    *)
(* indent, the format Printf was called with and the argument it printed.   *)

Line(n, f, a) == [ indent |-> n, format |-> f, arg |-> a ]

\* The order of cue.Kind values: the order of their bits.
kindRank(k) == CHOOSE i \in DOMAIN allKinds : allKinds[i] = k

\* The order the keys of a map are sorted by: cmp.Compare of kinds for a
\* KindSwitchNode, of strings for the paths of a FieldAbsenceNode, and
\* Atom.compare for a ValueSwitchNode.
keyLess(tag, a, b) ==
  IF tag = "kind" THEN kindRank(a) < kindRank(b) ELSE stringLess(a, b)

\* The keys as the map iteration leaves them, with no sort.
keysUnsorted(tag, q) == q

RECURSIVE insertKey(_, _, _)
insertKey(tag, k, sorted) ==
  IF sorted = << >> THEN << k >>
  ELSE IF keyLess(tag, k, Head(sorted)) THEN << k >> \o sorted
  ELSE << Head(sorted) >> \o insertKey(tag, k, Tail(sorted))

RECURSIVE sortInto(_, _, _)
sortInto(tag, q, sorted) ==
  IF q = << >> THEN sorted
  ELSE sortInto(tag, Tail(q), insertKey(tag, Head(q), sorted))

\* slices.Sorted and slices.SortedFunc over the keys q that maps.Keys
\* yields.
sortKeys(tag, q) == sortInto(tag, q, << >>)

\* maps.Keys(n.Branches), in the order ord ranges over this kind of map.
branchKeys(n, ord) == SelectSeq(ord[n.tag], LAMBDA k : k \in DOMAIN n.Branches)

RECURSIVE sortedInts(_)
sortedInts(S) ==
  IF S = {} THEN << >>
  ELSE Only({ << m >> \o sortedInts(S \ { m }) :
               m \in { x \in S : \A y \in S : x <= y } })

\* setString: the values in ascending order.
setString(s) == sortedInts(s.vals)

RECURSIVE writeNode(_, _, _)
RECURSIVE writeCases(_, _, _, _)

\* The loop over the sorted keys of a switch node.
writeCases(n, keys, w, ord) ==
  IF keys = << >> THEN << >>
  ELSE << Line(w, "case %v:", Head(keys)) >>
         \o writeNode(n.Branches[Head(keys)], w + 1, ord)
         \o writeCases(n, Tail(keys), w, ord)

\* n.write(w), with w the indent level of the writer.
writeNode(n, w, ord) ==
  CASE n.tag = "leaf" -> << Line(w, "choose(%v)", setString(n.Arms)) >>
    [] n.tag = "error" -> << Line(w, "error", << >>) >>
    [] n.tag = "kind" ->
         << Line(w, "switch kind(%v) {", n.Path) >>
           \o writeCases(n, sortKeys("kind", branchKeys(n, ord)), w, ord)
           \o << Line(w, "}", << >>) >>
    [] n.tag = "value" ->
         << Line(w, "switch %s {", n.Path) >>
           \o writeCases(n, sortKeys("value", branchKeys(n, ord)), w, ord)
           \o << Line(w, "default:", << >>) >>
           \o writeNode(n.Default, w + 1, ord)
           \o << Line(w, "}", << >>) >>
    [] n.tag = "absence" ->
         << Line(w, "allOf {", << >>) >>
           \o Only({ [ i \in DOMAIN keys |->
                         Line(w + 1, "notPresent(%v) -> %s",
                              << keys[i], setString(n.Branches[keys[i]]) >>) ] :
                     keys \in { sortKeys("absence", branchKeys(n, ord)) } })
           \o << Line(w, "}", << >>) >>

NodeString(n, ord) ==
  IF n.tag = "nil" THEN << Line(0, "<nil>", << >>) >> ELSE writeNode(n, 0, ord)

MaxBranches == 3

PrintLeaves == { LeafNode(plainSet({ 0 })), LeafNode(plainSet({ 2, 0, 1 })), ErrorNode }

\* The keys of the branch maps: MaxBranches of each kind, listed out of
\* order.
PrintKinds == { << StructKind, NullKind, StringKind, IntKind >>[i] : i \in 1 .. MaxBranches }

PrintAtoms == { << AtomTrue, AtomA, AtomOne, AtomB >>[i] : i \in 1 .. MaxBranches }

PrintPaths == { << NameXY, NameA, NameB, NameX >>[i] : i \in 1 .. MaxBranches }

SmallSubsets(S) == (SUBSET S) \ { {} }

\* Switches over leaves.
PrintLevel1 ==
  { KindSwitchNode(RootPath, [ k \in D |-> LeafNode(plainSet({ kindRank(k) })) ]) :
      D \in SmallSubsets(PrintKinds) }
    \cup { ValueSwitchNode(NameT, [ a \in D |-> l ], ErrorNode) :
             D \in SmallSubsets(PrintAtoms), l \in PrintLeaves }
    \cup { FieldAbsenceNode([ q \in D |-> plainSet(g) ]) :
             D \in SmallSubsets(PrintPaths), g \in { { 0 }, { 1, 0 } } }

PrintInner ==
  { KindSwitchNode(NameT, [ k \in { StringKind, NullKind } |-> LeafNode(plainSet({ 1 })) ]),
    ValueSwitchNode(NameT, [ a \in { AtomTrue, AtomA } |-> LeafNode(plainSet({ 0 })) ],
                    ErrorNode),
    FieldAbsenceNode([ q \in { NameB, NameA } |-> plainSet({ 0, 1 }) ]) }

\* Switches over switches.
PrintLevel2 ==
  { KindSwitchNode(RootPath, [ k \in D |-> n ]) :
      D \in SmallSubsets(PrintKinds), n \in PrintInner }
    \cup { ValueSwitchNode(RootPath, [ a \in D |-> n ], d) :
             D \in SmallSubsets(PrintAtoms),
             n \in PrintInner \cup { ErrorNode },
             d \in PrintInner }

PrintUniverse == { NilNode } \cup PrintLeaves \cup PrintLevel1 \cup PrintLevel2

\* The orders the maps of the three kinds of node may be ranged in.
PrintOrders ==
  { [ kind |-> ok, value |-> ov, absence |-> oa ] :
      ok \in MapOrders(PrintKinds), ov \in MapOrders(PrintAtoms),
      oa \in MapOrders(PrintPaths) }

InitPrint ==
  /\ callIn \in { [ fn |-> "NodeString", node |-> n ] : n \in PrintUniverse }
  /\ callStep = "ready"
  /\ callOut = << >>

\* NodeString(n), the maps ranged in the orders ord.
CallNodeString(ord) ==
  /\ callStep = "ready"
  /\ callIn.fn = "NodeString"
  /\ callOut' = NodeString(callIn.node, ord)
  /\ callStep' = "done"
  /\ UNCHANGED << callIn, discVars, setVars, vsVars >>

PrintReturned == callStep = "done" /\ callIn.fn = "NodeString"

BranchFormats == { "case %v:", "default:", "notPresent(%v) -> %s" }

\* Lines i < j of the text are branches of the same node: they have the
\* same indent, every line between them is at that indent or deeper, and
\* those at that indent are branches too.
SameNode(i, j) ==
  /\ i < j
  /\ callOut[i].format \in BranchFormats
  /\ callOut[j].format \in BranchFormats
  /\ callOut[i].indent = callOut[j].indent
  /\ \A m \in (i + 1) .. (j - 1) :
       /\ callOut[m].indent >= callOut[i].indent
       /\ callOut[m].indent = callOut[i].indent =>
            callOut[m].format \in BranchFormats

\* The kind of switch the case line i belongs to: that of the switch line
\* before it at its indent.
CaseTag(i) ==
  IF callOut[CHOOSE m \in 1 .. i :
               /\ callOut[m].indent = callOut[i].indent
               /\ callOut[m].format \in { "switch kind(%v) {", "switch %s {" }
               /\ \A m2 \in (m + 1) .. i :
                    callOut[m2].indent = callOut[i].indent =>
                      callOut[m2].format \notin { "switch kind(%v) {", "switch %s {" }
             ].format = "switch kind(%v) {"
  THEN "kind" ELSE "value"

\* The keys printed for the root node, in the order of the lines.
RootKeys(f) ==
  SelectSeq([ i \in DOMAIN callOut |->
               IF callOut[i].format = f /\ callOut[i].indent = (IF f = "case %v:" THEN 0 ELSE 1)
               THEN << IF f = "case %v:" THEN callOut[i].arg ELSE callOut[i].arg[1] >>
               ELSE << >> ],
            LAMBDA x : x # << >>)

\* C18: NodeString is a function of the tree alone: whatever order the
\* branch maps are ranged in, the text is the same, every branch is printed
\* once, KindSwitch branches are in ascending kind order, ValueSwitch
\* branches in ascending atom-string order with default after them, and
\* FieldAbsence branches in ascending path order.
C18_PrinterStable ==
  PrintReturned =>
    /\ \A ord \in PrintOrders : NodeString(callIn.node, ord) = callOut
    /\ callIn.node.tag \in { "kind", "value" } =>
         /\ Len(RootKeys("case %v:")) = Cardinality(DOMAIN callIn.node.Branches)
         /\ { RootKeys("case %v:")[i][1] : i \in DOMAIN RootKeys("case %v:") }
              = DOMAIN callIn.node.Branches
    /\ callIn.node.tag = "absence" =>
         /\ Len(RootKeys("notPresent(%v) -> %s"))
              = Cardinality(DOMAIN callIn.node.Branches)
         /\ { RootKeys("notPresent(%v) -> %s")[i][1] :
                i \in DOMAIN RootKeys("notPresent(%v) -> %s") }
              = DOMAIN callIn.node.Branches
    /\ \A i, j \in DOMAIN callOut :
         SameNode(i, j) =>
           /\ callOut[j].format = "case %v:" =>
                /\ callOut[i].format = "case %v:"
                /\ keyLess(CaseTag(j), callOut[i].arg, callOut[j].arg)
           /\ callOut[j].format = "default:" => callOut[i].format = "case %v:"
           /\ callOut[j].format = "notPresent(%v) -> %s" =>
                stringLess(callOut[i].arg[1], callOut[j].arg[1])

C18_Witness ==
  /\ PrintReturned
  /\ callIn.node.tag = "value"
  /\ DOMAIN callIn.node.Branches = { AtomTrue, AtomOne, AtomA }
  /\ callIn.node.Default.tag = "absence"
  /\ \E a \in DOMAIN callIn.node.Branches : callIn.node.Branches[a].tag = "kind"
  /\ Len(callOut) > 10

----------------------------------------------------------------------------
(* fullyDiscriminated on its own, over any sequence of groups.              *)

MaxGroups == 3

FullElems == 0 .. 2

InitFull ==
  /\ callIn \in { [ fn |-> "fullyDiscriminated", it |-> q, selected |-> need ] :
                    q \in UNION { [ 1 .. n -> SUBSET FullElems ] : n \in 0 .. MaxGroups },
                    need \in SUBSET FullElems }
  /\ callStep = "ready"
  /\ callOut = << >>

CallFullyDiscriminated ==
  /\ callStep = "ready"
  /\ callIn.fn = "fullyDiscriminated"
  /\ callOut' = << fullyDiscriminatedSeq(callIn.it, callIn.selected, {}) >>
  /\ callStep' = "done"
  /\ UNCHANGED << callIn, discVars, setVars, vsVars >>

FullReturned == callStep = "done" /\ callIn.fn = "fullyDiscriminated"

\* C20: fullyDiscriminated(groups, need) is true exactly when every group
\* holds at most one element of need and every element of need is in at
\* least one group; the elements of the groups outside need are ignored.
C20_FullyDiscriminated ==
  FullReturned =>
    callOut[1]
      = /\ \A i \in DOMAIN callIn.it :
             \A x, y \in callIn.it[i] \cap callIn.selected : x = y
        /\ \A x \in callIn.selected :
             \E i \in DOMAIN callIn.it : x \in callIn.it[i]

C20_Witness ==
  /\ FullReturned
  /\ callOut[1] = TRUE
  /\ callIn.selected = { 0, 2 }
  /\ callIn.it = << { 0, 1 }, { 1 }, { 1, 2 } >>

----------------------------------------------------------------------------
(* discriminators on its own, over values that hold several kinds or        *)
(* several constants.                                                       *)

MaxDiscrimArms == 3

DiscrimUniverse ==
  { StrA, StrB, IntOne, BoolTrue, VAtom(AtomFalse, BoolKind),
    VAtom(AtomNull, NullKind),
    VType(StringKind), VType(IntKind), VType(BoolKind),
    VOr(<< StrA, StrB >>),
    VOr(<< VType(IntKind), VType(StringKind) >>),
    VStruct(<< Req(NameA, VType(IntKind)) >>),
    NoValue }

\* The calls discriminate makes: the values, two or more selected arms, and
\* as the arms that need discriminating either the selected ones or what the
\* root-level attempt computes.
DiscrimInputs ==
  { [ fn |-> "discriminators", arms0 |-> as, selected |-> sel, needDiscrim |-> nd ] :
      as \in UNION { [ 1 .. n -> DiscrimUniverse ] : n \in 2 .. MaxDiscrimArms },
      sel \in SUBSET (0 .. (MaxDiscrimArms - 1)),
      nd \in SUBSET (0 .. (MaxDiscrimArms - 1)) }

InitDiscrims ==
  /\ callIn \in { c \in DiscrimInputs :
                    /\ c.selected \subseteq Indices(c.arms0)
                    /\ Cardinality(c.selected) >= 2
                    /\ c.needDiscrim \in { c.selected,
                                            needDiscrimOf(c.arms0, c.selected) } }
  /\ callStep = "ready"
  /\ callOut = << >>

CallDiscriminators ==
  /\ callStep = "ready"
  /\ callIn.fn = "discriminators"
  /\ callOut' = discriminators(callIn.arms0, callIn.selected, callIn.needDiscrim)
  /\ callStep' = "done"
  /\ UNCHANGED << callIn, discVars, setVars, vsVars >>

DiscrimsReturned == callStep = "done" /\ callIn.fn = "discriminators"

\* How many of the returned groups, value groups and kind groups taken
\* together, hold arm i.
GroupsHolding(i) ==
  Cardinality({ c \in DOMAIN callOut.byValue : i \in callOut.byValue[c] })
    + Cardinality({ k \in DOMAIN callOut.byKind : i \in callOut.byKind[k] })

\* C21 as stated: whenever discriminators reports full discrimination, each
\* arm that needs discriminating is in exactly one of the returned groups.
C21_ExactlyOneGroup ==
  (DiscrimsReturned /\ callOut.full) =>
    \A i \in callIn.needDiscrim : GroupsHolding(i) = 1

\* C21, amended: whenever discriminators reports full discrimination, each
\* arm that needs discriminating is in at least one of the returned groups
\* and no returned group holds two of them.
C21_AtLeastOneGroup ==
  (DiscrimsReturned /\ callOut.full) =>
    /\ \A i \in callIn.needDiscrim : GroupsHolding(i) >= 1
    /\ \A g \in MapValues(callOut.byValue) \cup MapValues(callOut.byKind) :
         Cardinality(g \cap callIn.needDiscrim) <= 1

C21_Witness ==
  /\ DiscrimsReturned
  /\ callOut.full
  /\ DOMAIN callOut.byValue # {}
  /\ DOMAIN callOut.byKind # {}
  /\ \E i \in callIn.needDiscrim : GroupsHolding(i) = 2

----------------------------------------------------------------------------
(* Discriminate on its own, over arms with several fields, arms that are    *)
(* a struct or a scalar, and the arms of the tests.                         *)

MaxTreeArms == 3

BoolFalse == VAtom(AtomFalse, BoolKind)

TreeUniverse ==
  { VType(IntKind), VType(StringKind), VAtom(AtomNull, NullKind),
    BoolTrue, BoolFalse, StrA,
    VOr(<< VType(BoolKind), VStruct(<< Req(NameA, VType(IntKind)) >>) >>),
    \* StructsWithSeveralPotentialDiscriminators
    VStruct(<< Req(NameA, VType(IntKind)), Req(NameB, VType(StringKind)),
               Req(NameC, StrA) >>),
    VStruct(<< Req(NameA, VType(IntKind)), Req(NameB, VType(BoolKind)),
               Req(NameC, StrA) >>),
    \* PairwiseDiscriminator
    VStruct(<< Req(NameA, StrA), Req(NameB, BoolTrue),
               Opt(NameC, VType(IntKind)) >>),
    VStruct(<< Req(NameA, StrA), Req(NameB, BoolFalse),
               Opt(NameC, VType(StringKind)) >>),
    VStruct(<< Req(NameA, StrB), Req(NameB, BoolTrue),
               Opt(NameD, VType(StringKind)) >>),
    VStruct(<< Req(NameA, VType(IntKind)) >>),
    VStruct(<< Req(NameB, VType(IntKind)) >>),
    VStruct(<< Req(NameC, VType(IntKind)) >>),
    VStruct(<< Req(NameA, VType(IntKind)), Req(NameB, VType(IntKind)) >>),
    VStruct(<< Req(NameA, VType(IntKind)), Req(NameB, VType(IntKind)),
               Req(NameC, VType(IntKind)) >>),
    VStruct(<< Req(NameD, VStruct(<< Req(NameK, StrA) >>)) >>) }

InitTrees ==
  /\ callIn \in { [ fn |-> "Discriminate", arms |-> as, merge |-> m ] :
                    as \in UNION { [ 1 .. n -> TreeUniverse ] : n \in 1 .. MaxTreeArms },
                    m \in BOOLEAN }
  /\ callStep = "ready"
  /\ callOut = << >>

CallDiscriminateOnly ==
  /\ callStep = "ready"
  /\ callIn.fn = "Discriminate"
  /\ callOut' = Discriminate(callIn.arms, callIn.merge)
  /\ callStep' = "done"
  /\ UNCHANGED << callIn, discVars, setVars, vsVars >>

TreeReturned ==
  callStep = "done" /\ callIn.fn = "Discriminate" /\ callOut.node.tag # "panic"

\* The nodes of the returned tree.
TreeNodes == IF TreeReturned THEN Subtrees(callOut.node) ELSE {}

\* The calls of discriminate made by the call of Discriminate.
TreeCalls ==
  IF ~TreeReturned \/ allArmsPanics(Len(callOut.merged.arms)) THEN {}
  ELSE discriminateCalls(callOut.merged.arms, allArms(Len(callOut.merged.arms)))

\* A ValueSwitch whose Default is a KindSwitch with a branch for kind k.
DefaultHasKind(n, k) ==
  n.Default.tag = "kind" /\ k \in DOMAIN n.Default.Branches

\* C22: in every tree returned by Discriminate, no ValueSwitch has both the
\* atoms true and false as keys while its Default KindSwitch has a bool
\* branch, and none has the atom null as a key while its Default KindSwitch
\* has a null branch.
C22_NoRedundantKeys ==
  \A n \in TreeNodes :
    n.tag = "value" =>
      /\ ~({ AtomTrue, AtomFalse } \subseteq DOMAIN n.Branches
            /\ DefaultHasKind(n, BoolKind))
      /\ ~(AtomNull \in DOMAIN n.Branches /\ DefaultHasKind(n, NullKind))

\* A ValueSwitch on true and false with a KindSwitch as Default, built over
\* an arm that allows every bool.
C22_Witness ==
  /\ \E n \in TreeNodes :
       /\ n.tag = "value"
       /\ { AtomTrue, AtomFalse } \subseteq DOMAIN n.Branches
       /\ n.Default.tag = "kind"
  /\ \E j \in DOMAIN callIn.arms :
       /\ callIn.arms[j].tag = "or"
       /\ BoolKind \subseteq IncompleteKind(callIn.arms[j])

\* What the call c of discriminate returned.
NodeOfCall(c) ==
  discriminate([ rev |-> callOut.merged.rev ], c.values, c.selected)

\* The calls of discriminate that returned a FieldAbsence node.
AbsenceCalls == { c \in TreeCalls : NodeOfCall(c).tag = "absence" }

\* The paths of the call c that no arm but one of the selected has.
OneArmPaths(c) ==
  { f.path : f \in { g \in SeqRange(allFields(c.values, c.selected, requiredLabel)) :
                       Cardinality(existenceDiscriminator(g.values, c.selected))
                         = Cardinality(c.selected) - 1 } }

----------------------------------------------------------------------------
(* compatible on its own, over structs with list and struct fields and      *)
(* lists of different lengths.                                              *)

MaxCompatArms == 3

ListOfStrings == VList(<< VType(StringKind) >>)

CompatUniverse ==
  { IntOne, StrA, VType(IntKind),
    VStruct(<< Req(NameA, VType(IntKind)) >>),
    VStruct(<< Req(NameA, VType(StringKind)) >>),
    VStruct(<< Req(NameB, VType(StringKind)) >>),
    VStruct(<< Req(NameA, ListOfInts) >>),
    VStruct(<< Req(NameA, ListOfStrings) >>),
    VStruct(<< Req(NameD, VStruct(<< Req(NameK, StrA) >>)) >>),
    VStruct(<< Req(NameD, VStruct(<< Req(NameK, VType(IntKind)) >>)) >>),
    ListOfInts,
    VList(<< VType(IntKind), VStruct(<< Req(NameA, VType(IntKind)) >>) >>),
    VList(<< VType(IntKind), VStruct(<< Req(NameA, VType(StringKind)) >>) >>),
    VList(<< ListOfInts >>),
    VList(<< >>) }

\* What a call of compatible does: it returns true or false, or panics.
compatibleResult(values) ==
  IF compatiblePanics(values) THEN "panic"
  ELSE IF compatible(values) THEN "true" ELSE "false"

InitCompat ==
  /\ callIn \in { [ fn |-> "compatible", arms |-> as ] :
                    as \in UNION { [ 1 .. n -> CompatUniverse ] : n \in 0 .. MaxCompatArms } }
  /\ callStep = "ready"
  /\ callOut = << >>

CallCompatible ==
  /\ callStep = "ready"
  /\ callIn.fn = "compatible"
  /\ callOut' = << compatibleResult(callIn.arms) >>
  /\ callStep' = "done"
  /\ UNCHANGED << callIn, discVars, setVars, vsVars >>

CompatReturned == callStep = "done" /\ callIn.fn = "compatible"

\* The names of the fields that both of two structs have.
CommonFields(v, w) ==
  { f.name : f \in SeqRange(structFields(v, allLabels)) }
    \cap { f.name : f \in SeqRange(structFields(w, allLabels)) }

\* C24: two struct arms are compatible only if, for every field that both
\* have, the two values of the field are themselves compatible: the same
\* atom kind, compatible structs, or lists that are compatible position by
\* position.
C24_FieldsCompatible ==
  (/\ CompatReturned
   /\ Len(callIn.arms) = 2
   /\ \A j \in DOMAIN callIn.arms : callIn.arms[j].tag = "struct"
   /\ callOut[1] = "true")
    => \A n \in CommonFields(callIn.arms[1], callIn.arms[2]) :
         compatibleResult(<< fieldValue(callIn.arms[1], n, allLabels),
                             fieldValue(callIn.arms[2], n, allLabels) >>) = "true"

\* C30: compatible gives the same result for every order of its arguments.
C30_OrderIndependent ==
  CompatReturned =>
    \A q \in MapOrders(DOMAIN callIn.arms) :
      compatibleResult([ i \in DOMAIN callIn.arms |-> callIn.arms[q[i]] ]) = callOut[1]

\* What the root-level attempt of the call c finds.
RootAttempt(c) ==
  discriminators(c.values, c.selected, needDiscrimOf(c.values, c.selected))

\* What the per-field search of the call c finds at the field f.
FieldAttempt(c, f) == discriminators(f.values, c.selected, c.selected)

\* The fields the walker yields for the call c.
FieldsOfCall(c) == allFields(c.values, c.selected, requiredLabel)

\* The call c finds no full discrimination at the root or at any field, and
\* its field-absence loop ends with arms left in possible.
FallsThrough(c) ==
  /\ Cardinality(c.selected) > 1
  /\ ~RootAttempt(c).panic /\ ~RootAttempt(c).full
  /\ \A f \in SeqRange(FieldsOfCall(c)) :
       ~FieldAttempt(c, f).panic /\ ~FieldAttempt(c, f).full
  /\ absencePossible(FieldsOfCall(c), 1, c.selected, c.selected) # {}

\* The original arms that the arms S of a call stand for.
OriginalArms(S) ==
  IF callOut.merged.rev.isNil THEN S
  ELSE UNION { revApply(callOut.merged.rev, i) : i \in S }

\* C25: when neither the root nor any required-field path discriminates
\* fully and the field-absence loop ends with arms left in possible,
\* discriminate returns a single Leaf whose arms are the selected ones, and
\* the tree is reported as not perfect.
C25_FallbackLeaf ==
  \A c \in TreeCalls :
    FallsThrough(c) =>
      /\ NodeOfCall(c).tag = "leaf"
      /\ NodeOfCall(c).Arms.vals = OriginalArms(c.selected)
      /\ ~callOut.perfect

\* A call over three arms that falls through although a path that only one
\* arm lacks was recorded on the way.
C25_Witness ==
  \E c \in TreeCalls :
    /\ FallsThrough(c)
    /\ Cardinality(c.selected) = 3
    /\ OneArmPaths(c) # {}
    /\ NodeOfCall(c).tag = "leaf"

\* The positions, in walker order, of the fields of the call c at which
\* the selected arms are fully discriminated.
FullFields(c) ==
  { j \in DOMAIN FieldsOfCall(c) : FieldAttempt(c, FieldsOfCall(c)[j]).full }

\* The call c gets as far as the per-field search and finds a field there.
FieldSearchFinds(c) ==
  /\ Cardinality(c.selected) > 1
  /\ ~RootAttempt(c).panic /\ ~RootAttempt(c).full
  /\ FullFields(c) # {}

\* C26: when the root-level attempt is not full, the switch returned by the
\* per-field search tests the first path, in walker order, at which the
\* selected arms are fully discriminated.
C26_FirstFullPath ==
  \A c \in TreeCalls :
    FieldSearchFinds(c) =>
      /\ NodeOfCall(c).tag \in { "kind", "value" }
      /\ \E j \in FullFields(c) :
           /\ NodeOfCall(c).Path = FieldsOfCall(c)[j].path
           /\ \A i \in FullFields(c) : j <= i

\* A per-field search with two fields that discriminate fully, after one
\* that does not.
C26_Witness ==
  \E c \in TreeCalls :
    /\ FieldSearchFinds(c)
    /\ Cardinality(FullFields(c)) >= 2
    /\ 1 \notin FullFields(c)
    /\ NodeOfCall(c).tag = "kind"

\* The calls of discriminate that buildDecisionFromDescriminators would
\* make if it recursed on every group, a group equal to selected included.
buildChildrenAll(values, selected, byValue, byKind) ==
  { [ values |-> values, selected |-> byKind[k] ] : k \in DOMAIN byKind }
    \cup { [ values |-> values, selected |-> byValue[a] ] : a \in DOMAIN byValue }

\* The calls of discriminate that buildDecisionFromDescriminators makes
\* itself: one for a struct group of two or more arms, and one for every
\* other group that is not the selected set.
buildChildren(values, selected, byValue, byKind) ==
  { [ values |-> values, selected |-> byKind[k] ] :
      k \in { x \in DOMAIN byKind :
                \/ x = StructKind /\ Cardinality(byKind[x]) > 1
                \/ byKind[x] # selected } }
    \cup { [ values |-> values, selected |-> byValue[a] ] :
             a \in { x \in DOMAIN byValue : byValue[x] # selected } }

\* The first field of the call c that discriminates fully.
FirstFullField(c) ==
  FieldsOfCall(c)[CHOOSE j \in FullFields(c) : \A i \in FullFields(c) : j <= i]

\* The calls of discriminate that the call c makes itself.
directCalls(c) ==
  IF Cardinality(c.selected) <= 1 \/ RootAttempt(c).panic THEN {}
  ELSE IF RootAttempt(c).full
  THEN buildChildren(c.values, c.selected,
                     RootAttempt(c).byValue, RootAttempt(c).byKind)
  ELSE IF FullFields(c) = {} THEN {}
  ELSE buildChildren(FirstFullField(c).values, c.selected,
                     FieldAttempt(c, FirstFullField(c)).byValue,
                     FieldAttempt(c, FirstFullField(c)).byKind)

\* C27: every call of discriminate made from
\* buildDecisionFromDescriminators, the struct branch included, gets a
\* selected set that is a strict subset of its caller's, so that the
\* recursion ends.
C27_SelectedShrinks ==
  \A c \in TreeCalls :
    /\ directCalls(c) \subseteq TreeCalls
    /\ \A ch \in directCalls(c) :
         ch.selected \subseteq c.selected /\ ch.selected # c.selected

\* A call that is full at the root, recurses on a struct group of two or
\* more arms, and has a group equal to its selected set.
C27_Witness ==
  \E c \in TreeCalls :
    /\ Cardinality(c.selected) > 1
    /\ RootAttempt(c).full
    /\ \E ch \in directCalls(c) :
         /\ Cardinality(ch.selected) > 1
         /\ StructKind \in DOMAIN RootAttempt(c).byKind
         /\ RootAttempt(c).byKind[StructKind] = ch.selected
    /\ \E k \in DOMAIN RootAttempt(c).byKind :
         RootAttempt(c).byKind[k] = c.selected

\* C28: with merging enabled, the arm set of every leaf is a consistent
\* set of original arm indices: Len() is the number of distinct indices
\* that Values() yields, and Has(j) is true exactly for those indices.
C28_LeafArmsConsistent ==
  (TreeReturned /\ callIn.merge) =>
    \A n \in TreeNodes :
      n.tag = "leaf" =>
        /\ setLen(n.Arms) = Cardinality(n.Arms.vals)
        /\ \A j \in Indices(callIn.arms) : setHas(n.Arms, j) <=> j \in n.Arms.vals

\* The switches of the returned tree that are not on the root path.
FieldSwitches ==
  { n \in TreeNodes : n.tag \in { "kind", "value" } /\ n.Path # RootPath }

\* Every branch of the switch n is a leaf that holds exactly one arm.
OneArmLeaves(n) ==
  \A k \in DOMAIN n.Branches :
    /\ n.Branches[k].tag = "leaf"
    /\ Cardinality(n.Branches[k].Arms.vals) = 1

\* C29 as stated: every KindSwitch or ValueSwitch that is not on the root
\* path has only leaves of exactly one arm as children, and an ErrorNode
\* as Default if it has one.
C29_LeafChildrenOnly ==
  \A n \in FieldSwitches :
    /\ OneArmLeaves(n)
    /\ n.tag = "value" => n.Default.tag = "error"

\* C29, amended: every KindSwitch or ValueSwitch that is not on the root
\* path has only leaves of exactly one arm as branches; the Default of such
\* a ValueSwitch is an ErrorNode or a KindSwitch on the same path.
C29_LeafBranchesOnly ==
  \A n \in FieldSwitches :
    /\ OneArmLeaves(n)
    /\ n.tag = "value" =>
         \/ n.Default.tag = "error"
         \/ n.Default.tag = "kind" /\ n.Default.Path = n.Path

\* A ValueSwitch on a field whose Default is a KindSwitch with a branch.
C29_Witness ==
  \E n \in FieldSwitches :
    /\ n.tag = "value"
    /\ n.Default.tag = "kind"
    /\ DOMAIN n.Default.Branches # {}

----------------------------------------------------------------------------
(* Specifications.                                                          *)

\* The discriminator: arms are collected, Discriminate is called, and the
\* tree is asked about a value.
Init == InitDisc /\ InitSets /\ IdleVS /\ IdleCall

Next ==
  \/ \E a \in ArmUniverse : AddArm(a)
  \/ \E opt \in BOOLEAN : CallDiscriminate(opt)
  \/ \E v \in DataUniverse : \E ord \in MapOrders(AbsencePaths(tree)) :
       CallCheck(v, ord)

Spec == Init /\ [][Next]_vars

\* The client of the two set backends.
InitSetsSpec == InitDisc /\ InitSets /\ IdleVS /\ IdleCall

NextSets ==
  \/ \E t \in SetVars : \E xs \in SUBSET Elems : SetOf(t, xs)
  \/ \E t \in SetVars : SetMake(t)
  \/ \E t \in SetVars : \E x \in Elems : SetAdd(t, x)
  \/ \E t \in SetVars : \E x \in Elems : SetDelete(t, x)
  \/ \E t, a, b \in SetVars : SetUnion(t, a, b)
  \/ \E t, a, b \in SetVars : SetIntersect(t, a, b)
  \/ \E t, a \in SetVars : SetClone(t, a)

SpecSets == InitSetsSpec /\ [][NextSets]_vars

\* The value-set algebra.
InitVSSpec == InitDisc /\ InitSets /\ InitVS /\ IdleCall

NextVS ==
  \/ VSUnion
  \/ VSIntersect
  \/ VSWithout
  \/ VSNormalize
  \/ \E v \in VSValues : VSForValue(v)

SpecVS == InitVSSpec /\ [][NextVS]_vars

\* The field walker and its consumer.
InitWalkSpec == InitDisc /\ InitSets /\ IdleVS /\ InitWalk

NextWalk ==
  \/ WalkYield
  \/ WalkReturn

SpecWalk == InitWalkSpec /\ [][NextWalk]_vars

\* The disjunction splitter.
InitDisjSpec == InitDisc /\ InitSets /\ IdleVS /\ InitDisj

NextDisj == CallDisjunctions

SpecDisj == InitDisjSpec /\ [][NextDisj]_vars

\* The merger.
InitMergeSpec == InitDisc /\ InitSets /\ IdleVS /\ InitMerge

NextMerge == CallMergeCompatible

SpecMerge == InitMergeSpec /\ [][NextMerge]_vars

\* FieldAbsenceNode.Check.
InitAbsenceSpec == InitDisc /\ InitSets /\ IdleVS /\ InitAbsence

NextAbsence ==
  \E ord \in MapOrders(DOMAIN callIn.node.Branches) : CallAbsenceCheck(ord)

SpecAbsence == InitAbsenceSpec /\ [][NextAbsence]_vars

\* DataTypeForValues.
InitTypeSpec == InitDisc /\ InitSets /\ IdleVS /\ InitType

NextType == CallDataTypeForValues

SpecType == InitTypeSpec /\ [][NextType]_vars

\* The printer.
InitPrintSpec == InitDisc /\ InitSets /\ IdleVS /\ InitPrint

NextPrint == \E ord \in PrintOrders : CallNodeString(ord)

SpecPrint == InitPrintSpec /\ [][NextPrint]_vars

\* fullyDiscriminated.
InitFullSpec == InitDisc /\ InitSets /\ IdleVS /\ InitFull

NextFull == CallFullyDiscriminated

SpecFull == InitFullSpec /\ [][NextFull]_vars

\* discriminators.
InitDiscrimsSpec == InitDisc /\ InitSets /\ IdleVS /\ InitDiscrims

NextDiscrims == CallDiscriminators

SpecDiscrims == InitDiscrimsSpec /\ [][NextDiscrims]_vars

\* Discriminate over the arms of the tests.
InitTreesSpec == InitDisc /\ InitSets /\ IdleVS /\ InitTrees

NextTrees == CallDiscriminateOnly

SpecTrees == InitTreesSpec /\ [][NextTrees]_vars

\* compatible.
InitCompatSpec == InitDisc /\ InitSets /\ IdleVS /\ InitCompat

NextCompat == CallCompatible

SpecCompat == InitCompatSpec /\ [][NextCompat]_vars

====
